---- MODULE Spec2Model ----
(***************************************************************************)
(* Verification model of the Slack-to-assistant relay:                     *)
(*   - the signature verifier (utils/slackVerifier.ts),                    *)
(*   - the thread store (utils/threadStorage.ts),                          *)
(*   - the conversation client's poll loop and reply extraction            *)
(*     (services/openaiService.ts),                                        *)
(*   - the event dispatcher (routes/slackEvents.ts),                       *)
(*   - the manual-injection handler (routes/manualMessage.ts).             *)
(* Every await of the handlers is one step of the model: an action fires   *)
(* when the awaited call settles and runs the handler's code up to its     *)
(* next await.                                                             *)
(***************************************************************************)
EXTENDS Integers, Sequences, FiniteSets, TLC

\* ---------------------------------------------------------------- bounds
NumReq == 2          \* webhook requests that may be in flight together
NumInj == 1          \* manual injections that may be in flight together
MaxPolls == 1        \* non-terminal status fetches followed within one turn
MaxStatusLen == 3    \* length of the status scripts fed to waitForRunCompletion
MaxMsgs == 3         \* length of the message lists fed to getLatestAssistantMessage
MaxOps == 3          \* mutations made on one ThreadStorage instance
MaxRetries == 3      \* largest maxRetries given to waitForFileUpload

Reqs == 1..NumReq
Injs == 1..NumInj

\* ------------------------------------------------------- JS value encoding
Undefined == "<undefined>"          \* a missing header / field / env variable
Truthy(s) == s # Undefined /\ s # ""

\* ------------------------------------------------------------- the clock
NowSec == 1000       \* Math.floor(Date.now() / 1000) at the time of the request
FiveMinutes == 300

\* parseInt over the timestamp header values the model feeds in
\* (NaN is modelled by IsNaN; a numeric prefix is parsed, the rest ignored).
TsStrings ==
  { Undefined, "", "abc", "699", "700", "701", "1000", "1000x",
    "1299", "1300", "1301" }
NaNStrings == { Undefined, "", "abc" }
IsNaN(ts) == ts \in NaNStrings
ParseInt(ts) ==
  CASE ts = "699"   -> 699
    [] ts = "700"   -> 700
    [] ts = "701"   -> 701
    [] ts = "1000"  -> 1000
    [] ts = "1000x" -> 1000
    [] ts = "1299"  -> 1299
    [] ts = "1300"  -> 1300
    [] ts = "1301"  -> 1301
    [] OTHER        -> 0

Abs(n) == IF n < 0 THEN 0 - n ELSE n

\* validateTimestamp: |now - parseInt(ts)| < 5 minutes; NaN compares false.
validateTimestamp(ts) ==
  /\ ~IsNaN(ts)
  /\ Abs(NowSec - ParseInt(ts)) < FiveMinutes

\* ------------------------------------------------------------ signatures
\* A signature string is modelled by its length and by what it is the HMAC
\* of: the keyed hash is injective in (key, base string).
HexSigLen == 67          \* "v0=" followed by 64 hex digits
Hmac(key, ts, body) == <<key, ts, body>>
ExpectedSignature(body, ts, secret) ==
  [len |-> HexSigLen, mac |-> Hmac(secret, ts, body)]
NoSignature == [len |-> 0, mac |-> <<"", "", "">>]
ShortSignature == [len |-> 5, mac |-> <<"junk", "", "">>]

\* crypto.timingSafeEqual throws a RangeError on inputs of different length.
TimingSafeEqual(a, b) ==
  IF a.len # b.len THEN "throw" ELSE IF a = b THEN "true" ELSE "false"

\* The try block of verifySlackSignature, lines 18-36: stale (parsed)
\* timestamps are refused, NaN < x is false so an unparseable timestamp
\* goes on to the hash; body.toString() throws on a missing raw body,
\* createHmac on a missing key, timingSafeEqual on a length mismatch.
VerifyTry(body, signature, ts, secret) ==
  IF ~IsNaN(ts) /\ ParseInt(ts) < NowSec - FiveMinutes THEN "false"
  ELSE IF body = Undefined THEN "throw"
  ELSE IF secret = Undefined THEN "throw"
  ELSE TimingSafeEqual(ExpectedSignature(body, ts, secret), signature)

\* The whole function: the catch block of lines 37-40 turns every throw
\* into the result false.
VerifyOutcome_NoCatch(body, signature, ts, secret) ==
  VerifyTry(body, signature, ts, secret)

VerifyOutcome(body, signature, ts, secret) ==
  IF VerifyTry(body, signature, ts, secret) = "throw" THEN "false"
  ELSE VerifyTry(body, signature, ts, secret)

verifySlackSignature(body, signature, ts, secret) ==
  VerifyOutcome(body, signature, ts, secret) = "true"

\* One call of the verifier's two functions on the same arguments.
VerifyArgs(body, signature, ts, secret) ==
  [body |-> body, signature |-> signature, timestamp |-> ts, secret |-> secret]


\* ------------------------------------------------------ webhook requests
Users == { "U1", "U2" }
SelfAppId == "A_SELF"
OtherAppId == "A_OTHER"
SigningSecret == "s3cret"
RawBody == "raw"                    \* the request's raw body text

\* String.prototype.startsWith('D') over the channel ids of the model.
FirstChar(ch) ==
  CASE ch = "D1" -> "D"
    [] ch = "D2" -> "D"
    [] ch = "C1" -> "C"
    [] OTHER     -> ""

Event(etype, user, hidden, channel, appId) ==
  [type |-> etype, user |-> user, hidden |-> hidden, channel |-> channel,
   app_id |-> appId]
NoEvent == Event(Undefined, Undefined, FALSE, Undefined, Undefined)

Body(isNull, type, challenge, hasEvent, ev) ==
  [isNull |-> isNull, type |-> type, challenge |-> challenge,
   hasEvent |-> hasEvent, event |-> ev]

WebReq(sig, ts, secret, appEnv, raw, body) ==
  [signature |-> sig, timestamp |-> ts, signingSecret |-> secret,
   botAppId |-> appEnv, rawBody |-> raw, body |-> body]

DmEvent(user, appId) == Event("message", user, FALSE, "D1", appId)
DmBody(user, appId) ==
  Body(FALSE, "event_callback", Undefined, TRUE, DmEvent(user, appId))
GoodSig == ExpectedSignature(RawBody, "1000", SigningSecret)
Verified(body) ==
  WebReq(GoodSig, "1000", SigningSecret, SelfAppId, RawBody, body)
NoReq ==
  WebReq(NoSignature, Undefined, Undefined, Undefined, Undefined,
         Body(TRUE, Undefined, Undefined, FALSE, NoEvent))

\* ------------------------------------------------------------- responses
Response(status, kind, val) == [status |-> status, kind |-> kind, val |-> val]
Ok200 == Response(200, "ok", "true")
Err(status, msg) == Response(status, "error", msg)
MissingHeaders400 == Err(400, "Missing required headers")
TooOld400 == Err(400, "Request timestamp is too old")
BadSignature401 == Err(401, "Invalid signature")
InvalidChallenge400 == Err(400, "Invalid challenge")
Internal500 == Err(500, "Internal server error")
Pass == Response(0, "pass", "")     \* no response yet: go on to classify

\* handleSlackEvents, lines 180-203: the three rejections, in order.
VerificationResponse_SignatureFirst(in) ==
  IF \/ in.signature.len = 0
     \/ ~Truthy(in.timestamp)
     \/ ~Truthy(in.signingSecret)
    THEN MissingHeaders400
  ELSE IF ~verifySlackSignature(in.rawBody, in.signature, in.timestamp,
                                in.signingSecret)
    THEN BadSignature401
  ELSE IF ~validateTimestamp(in.timestamp) THEN TooOld400
  ELSE Pass

VerificationResponse(in) ==
  IF \/ in.signature.len = 0
     \/ ~Truthy(in.timestamp)
     \/ ~Truthy(in.signingSecret)
    THEN MissingHeaders400
  ELSE IF ~validateTimestamp(in.timestamp) THEN TooOld400
  ELSE IF ~verifySlackSignature(in.rawBody, in.signature, in.timestamp,
                                in.signingSecret)
    THEN BadSignature401
  ELSE Pass

\* handleUrlVerification
HandleUrlVerification(body) ==
  IF Truthy(body.challenge) THEN Response(200, "challenge", body.challenge)
  ELSE InvalidChallenge400

\* The direct-message filter of lines 217-222; reading .startsWith of a
\* missing channel throws a TypeError.
DmFilter_ChannelGuarded(ev) ==
  IF ev.type # "message" THEN "other"
  ELSE IF ~Truthy(ev.user) THEN "other"
  ELSE IF ev.hidden THEN "other"
  ELSE IF ev.channel = Undefined THEN "other"
  ELSE IF FirstChar(ev.channel) = "D" THEN "dm"
  ELSE "other"

DmFilter(ev) ==
  IF ev.type # "message" THEN "other"
  ELSE IF ~Truthy(ev.user) THEN "other"
  ELSE IF ev.hidden THEN "other"
  ELSE IF ev.channel = Undefined THEN "throw"
  ELSE IF FirstChar(ev.channel) = "D" THEN "dm"
  ELSE "other"

\* appId === process.env.SLACK_BOT_APP_ID (strict equality: two undefined
\* values are equal).
IsSelfAuthored_Never(ev, botAppId) == FALSE

IsSelfAuthored(ev, botAppId) == ev.app_id = botAppId

\* Classification of a request that passed verification, lines 205-265:
\* "throw" is a TypeError caught by the handler's try/catch.
Classify_EventFirst(in) ==
  IF in.body.isNull THEN "throw"
  ELSE IF in.body.hasEvent /\ DmFilter(in.body.event) = "dm" THEN "dm"
  ELSE IF in.body.type = "url_verification" THEN "handshake"
  ELSE "noop"

Classify(in) ==
  IF in.body.isNull THEN "throw"
  ELSE IF in.body.type = "url_verification" THEN "handshake"
  ELSE IF in.body.type = "event_callback" THEN
    IF ~in.body.hasEvent THEN "throw"
    ELSE IF DmFilter(in.body.event) = "throw" THEN "throw"
    ELSE IF DmFilter(in.body.event) = "other" THEN "noop"
    ELSE IF IsSelfAuthored(in.body.event, in.botAppId) THEN "self"
    ELSE "dm"
  ELSE "noop"


\* ---------------------------------------------------------- thread store
EmptyMap == [u \in {} |-> ""]
NoThread == Undefined
ThreadNames == << "t1", "t2", "t3", "t4", "t5", "t6", "t7", "t8" >>

\* Map.prototype.get / set
MapGet(m, u) == IF u \in DOMAIN m THEN m[u] ELSE NoThread
MapSet(m, u, t) == [x \in (DOMAIN m) \cup {u} |-> IF x = u THEN t ELSE m[x]]

\* JSON.stringify(Object.fromEntries(map)) and
\* new Map(Object.entries(JSON.parse(text))): the file holds the object's
\* key/value pairs.
ToJson(m) == { <<u, m[u]>> : u \in DOMAIN m }
FromJson(json) ==
  [u \in { p[1] : p \in json } |-> (CHOOSE p \in json : p[1] = u)[2]]
FileOf(m) == [state |-> "ok", json |-> ToJson(m)]

\* loadFromFile: an existing file is parsed, a missing one is created
\* empty, an unparseable one is replaced by the empty mapping.
LoadFromFile(f) == IF f.state = "ok" THEN FromJson(f.json) ELSE EmptyMap
FileAfterLoad(f) == IF f.state = "ok" THEN f ELSE FileOf(EmptyMap)

\* ------------------------------------------------------------------ state
VARIABLES
  pc,          \* webhook request -> where its handler / detached turn stands
  req,         \* webhook request -> the request it carries
  resp,        \* webhook request -> the HTTP responses sent, in order
  messageTs,   \* webhook request -> timestamp of its thinking message, or null
  threadId,    \* webhook request -> handleDirectMessage's local threadId
  polls,       \* webhook request -> non-terminal statuses fetched so far
  caught,      \* webhook request -> the call whose failure the turn caught
  calls,       \* webhook request -> collaborator calls made, in order
  run,         \* webhook request -> the run the backend holds for its turn
  assistantResponse,
               \* webhook request -> handleDirectMessage's local
               \* assistantResponse
  data,        \* the dispatcher's ThreadStorage instance: its in-memory Map
  file,        \* user-threads.json
  nextThread,  \* the backend's next fresh thread
  ipc,         \* injection -> where handleSendMessage stands
  ireq,        \* injection -> its username and message
  iresp,       \* injection -> the HTTP responses sent, in order
  iuser,       \* injection -> the user id looked up
  idata,       \* injection -> the Map of the ThreadStorage it constructed
  ithread,     \* injection -> its local threadId
  icalls,      \* injection -> collaborator calls made, in order
  wSeq,        \* waitForRunCompletion: the statuses the backend will report
  wFetched,    \* waitForRunCompletion: status fetches made
  wOut,        \* waitForRunCompletion: "running", "returned" or "raised"
  wErr,        \* waitForRunCompletion: the status named by the raised error,
               \* or the error of getRunStatus
  mList,       \* getLatestAssistantMessage: the list the backend returned
  mOut,        \* getLatestAssistantMessage: its outcome
  mFetch,      \* getLatestAssistantMessage: how getThreadMessages settled
  cOp,         \* conversation client: the operation called
  cCause,      \* conversation client: how the HTTP request settled
  cOut,        \* conversation client: the operation's outcome
  sState,      \* a ThreadStorage: "unbuilt" or "built"
  sBase,       \* a ThreadStorage: the mapping it came up with
  sHist,       \* a ThreadStorage: the mutations made since, in order
  vIn,         \* verifier: the arguments of the call
  vOut,        \* verifier: outcome of verifySlackSignature
  vFresh,      \* verifier: outcome of validateTimestamp
  uArgs,       \* waitForFileUpload: maxRetries and retryDelay
  uInfo,       \* waitForFileUpload: what files.info answers, per attempt
  uAttempt,    \* waitForFileUpload: the loop variable attempt
  uTried,      \* waitForFileUpload: verifications made
  uSleeps,     \* waitForFileUpload: the delays slept, in order
  uPc,         \* waitForFileUpload: where the call stands
  hReq,        \* middleware chain: the request's path, content type, bytes
  hBody,       \* middleware chain: req.body
  hParsed,     \* middleware chain: req._body, set by the parser that read
  hRawBody,    \* middleware chain: req.rawBody
  hPc,         \* middleware chain: the middleware the request is at
  hResp        \* middleware chain: the responses sent, in order

webVars == << pc, req, resp, messageTs, threadId, polls, caught, calls >>
storeVars == << data, file, nextThread >>
injVars == << ipc, ireq, iresp, iuser, idata, ithread, icalls >>
waitVars == << wSeq, wFetched, wOut, wErr >>
replyVars == << mList, mOut, mFetch >>
clientVars == << cOp, cCause, cOut >>
unitStoreVars == << sState, sBase, sHist >>
verifyVars == << vIn, vOut, vFresh >>
uploadVars == << uArgs, uInfo, uAttempt, uTried, uSleeps, uPc >>
chainVars == << hReq, hBody, hParsed, hRawBody, hPc, hResp >>
unitVars == << clientVars, unitStoreVars, verifyVars, uploadVars, chainVars >>
convVars == << run, assistantResponse >>
vars == << webVars, storeVars, injVars, waitVars, replyVars, unitVars, convVars >>

Call(op, arg) == [op |-> op, arg |-> arg]

\* The run createRun started for a turn, as the backend holds it: its
\* state and, once completed, the creation time of the assistant message
\* it produced.
Run(state, msg) == [state |-> state, msg |-> msg]
NoRun == Run("none", 0)
Ops(log) == { log[k].op : k \in 1..Len(log) }

\* --------------------------------------------------------------- statuses
Statuses ==
  { "queued", "in_progress", "requires_action", "cancelling", "cancelled",
    "failed", "completed", "expired" }

\* The throw condition of the poll loop, lines 195-201.
IsFailureStatus_NoExpired(st) == st \in { "failed", "cancelled" }

IsFailureStatus(st) == st \in { "failed", "cancelled", "expired" }

\* One iteration of waitForRunCompletion on the status just fetched
\* ("throw" stands for getRunStatus raising).
PollStep(st) ==
  IF st = "throw" THEN "raise"
  ELSE IF IsFailureStatus(st) THEN "raise"
  ELSE IF st = "completed" THEN "return"
  ELSE "again"


\* ------------------------------------------------------- event dispatcher
\* res.status(200).json({ ok: true }) of line 251, reached as soon as the
\* un-awaited handleDirectMessage call has run to its first await.
AckNow_AfterTurn(r) == resp

AckNow(r) == [resp EXCEPT ![r] = Append(@, Ok200)]

Receive_BlockedByPoll(r, in) ==
  /\ pc[r] = "idle"
  /\ \A q \in Reqs : pc[q] # "poll"
  /\ \A q \in Reqs : q < r => pc[q] # "idle"
  /\ req' = [req EXCEPT ![r] = in]
  /\ LET v == VerificationResponse(in)
         c == Classify(in)
     IN  IF v # Pass
           THEN /\ resp' = [resp EXCEPT ![r] = Append(@, v)]
                /\ pc' = [pc EXCEPT ![r] = "done"]
                /\ calls' = calls
         ELSE IF c = "dm"
           THEN /\ calls' = [calls EXCEPT ![r] =
                               Append(@, Call("sendTypingIndicator",
                                              in.body.event.channel))]
                /\ pc' = [pc EXCEPT ![r] = "typing"]
                /\ resp' = resp
         ELSE /\ resp' = [resp EXCEPT ![r] =
                            Append(@, CASE c = "throw" -> Internal500
                                        [] c = "handshake" ->
                                             HandleUrlVerification(in.body)
                                        [] OTHER -> Ok200)]
              /\ pc' = [pc EXCEPT ![r] = "done"]
              /\ calls' = calls
  /\ UNCHANGED << messageTs, threadId, polls, caught >>
  /\ UNCHANGED << storeVars, injVars, waitVars, replyVars, unitVars, convVars >>

Receive_SilentNoOp(r, in) ==
  /\ pc[r] = "idle"
  /\ \A q \in Reqs : q < r => pc[q] # "idle"
  /\ req' = [req EXCEPT ![r] = in]
  /\ LET v == VerificationResponse(in)
         c == Classify(in)
     IN  IF v # Pass
           THEN /\ resp' = [resp EXCEPT ![r] = Append(@, v)]
                /\ pc' = [pc EXCEPT ![r] = "done"]
                /\ calls' = calls
         ELSE IF c = "dm"
           THEN /\ calls' = [calls EXCEPT ![r] =
                               Append(@, Call("sendTypingIndicator",
                                              in.body.event.channel))]
                /\ pc' = [pc EXCEPT ![r] = "typing"]
                /\ resp' = resp
         ELSE /\ resp' = [resp EXCEPT ![r] =
                            CASE c = "throw" -> Append(@, Internal500)
                              [] c = "handshake" ->
                                   Append(@, HandleUrlVerification(in.body))
                              [] OTHER -> @]
              /\ pc' = [pc EXCEPT ![r] = "done"]
              /\ calls' = calls
  /\ UNCHANGED << messageTs, threadId, polls, caught >>
  /\ UNCHANGED << storeVars, injVars, waitVars, replyVars, unitVars, convVars >>

\* handleSlackEvents from its entry to its first await (or to its return).
Receive(r, in) ==
  /\ pc[r] = "idle"
  /\ \A q \in Reqs : q < r => pc[q] # "idle"
  /\ req' = [req EXCEPT ![r] = in]
  /\ LET v == VerificationResponse(in)
         c == Classify(in)
     IN  IF v # Pass
           THEN /\ resp' = [resp EXCEPT ![r] = Append(@, v)]
                /\ pc' = [pc EXCEPT ![r] = "done"]
                /\ calls' = calls
         ELSE IF c = "dm"
           THEN /\ calls' = [calls EXCEPT ![r] =
                               Append(@, Call("sendTypingIndicator",
                                              in.body.event.channel))]
                /\ pc' = [pc EXCEPT ![r] = "typing"]
                /\ resp' = resp
         ELSE /\ resp' = [resp EXCEPT ![r] =
                            Append(@, CASE c = "throw" -> Internal500
                                        [] c = "handshake" ->
                                             HandleUrlVerification(in.body)
                                        [] OTHER -> Ok200)]
              /\ pc' = [pc EXCEPT ![r] = "done"]
              /\ calls' = calls
  /\ UNCHANGED << messageTs, threadId, polls, caught >>
  /\ UNCHANGED << storeVars, injVars, waitVars, replyVars, unitVars, convVars >>

TypingReturn_AlwaysCreate(r, ts) ==
  /\ pc[r] = "typing"
  /\ messageTs' = [messageTs EXCEPT ![r] = ts]
  /\ pc' = [pc EXCEPT ![r] = "createThread"]
  /\ threadId' = threadId
  /\ calls' = [calls EXCEPT ![r] =
                 @ \o << Call("get", req[r].body.event.user),
                         Call("createThread", req[r].body.event.user) >>]
  /\ resp' = AckNow(r)
  /\ UNCHANGED << req, polls, caught >>
  /\ UNCHANGED << storeVars, injVars, waitVars, replyVars, unitVars, convVars >>

\* sendTypingIndicator settles (ts, or null on any failure); then
\* handleDirectMessage runs up to its first await and the 200 is sent.
TypingReturn(r, ts) ==
  /\ pc[r] = "typing"
  /\ messageTs' = [messageTs EXCEPT ![r] = ts]
  /\ LET u == req[r].body.event.user
         t == MapGet(data, u)
     IN  IF t = NoThread
           THEN /\ pc' = [pc EXCEPT ![r] = "createThread"]
                /\ threadId' = threadId
                /\ calls' = [calls EXCEPT ![r] =
                               @ \o << Call("get", u),
                                       Call("createThread", u) >>]
           ELSE /\ pc' = [pc EXCEPT ![r] = "addMessage"]
                /\ threadId' = [threadId EXCEPT ![r] = t]
                /\ calls' = [calls EXCEPT ![r] =
                               @ \o << Call("get", u),
                                       Call("addMessageToThread", t) >>]
  /\ resp' = AckNow(r)
  /\ UNCHANGED << req, polls, caught >>
  /\ UNCHANGED << storeVars, injVars, waitVars, replyVars, unitVars, convVars >>

\* The catch block of handleDirectMessage, lines 159-166: the failure of
\* call op is caught and the apology is sent to the user.
OnTurnError_Rethrow(r, op, log) ==
  /\ caught' = [caught EXCEPT ![r] = op]
  /\ pc' = [pc EXCEPT ![r] = "done"]
  /\ calls' = log

OnTurnError(r, op, log) ==
  /\ caught' = [caught EXCEPT ![r] = op]
  /\ pc' = [pc EXCEPT ![r] = "apology"]
  /\ calls' = [log EXCEPT ![r] =
                 Append(@, Call("sendMessage:apology", req[r].body.event.user))]

CreateThreadReturn_RunFirst(r, ok) ==
  /\ pc[r] = "createThread"
  /\ IF ok
       THEN LET u == req[r].body.event.user
                t == ThreadNames[nextThread]
            IN  /\ nextThread' = nextThread + 1
                /\ threadId' = [threadId EXCEPT ![r] = t]
                /\ data' = MapSet(data, u, t)
                /\ file' = FileOf(data')
                /\ calls' = [calls EXCEPT ![r] =
                               @ \o << Call("set", u),
                                       Call("createRun", t) >>]
                /\ pc' = [pc EXCEPT ![r] = "createRun"]
                /\ caught' = caught
       ELSE /\ OnTurnError(r, "createThread", calls)
            /\ UNCHANGED << threadId, storeVars >>
  /\ UNCHANGED << req, resp, messageTs, polls >>
  /\ UNCHANGED << injVars, waitVars, replyVars, unitVars, convVars >>

\* createThread settles; the new id is stored under the user and the
\* user's message is appended to the new thread.
CreateThreadReturn(r, ok) ==
  /\ pc[r] = "createThread"
  /\ IF ok
       THEN LET u == req[r].body.event.user
                t == ThreadNames[nextThread]
            IN  /\ nextThread' = nextThread + 1
                /\ threadId' = [threadId EXCEPT ![r] = t]
                /\ data' = MapSet(data, u, t)
                /\ file' = FileOf(data')
                /\ calls' = [calls EXCEPT ![r] =
                               @ \o << Call("set", u),
                                       Call("addMessageToThread", t) >>]
                /\ pc' = [pc EXCEPT ![r] = "addMessage"]
                /\ caught' = caught
       ELSE /\ OnTurnError(r, "createThread", calls)
            /\ UNCHANGED << threadId, storeVars >>
  /\ UNCHANGED << req, resp, messageTs, polls >>
  /\ UNCHANGED << injVars, waitVars, replyVars, unitVars, convVars >>

AddMessageReturn_Serialized(r, ok) ==
  /\ pc[r] = "addMessage"
  /\ \A q \in Reqs \ { r } :
       ~(threadId[q] = threadId[r] /\ pc[q] \in { "createRun", "poll", "getReply" })
  /\ IF ok
       THEN /\ calls' = [calls EXCEPT ![r] =
                           Append(@, Call("createRun", threadId[r]))]
            /\ pc' = [pc EXCEPT ![r] = "createRun"]
            /\ caught' = caught
       ELSE OnTurnError(r, "addMessageToThread", calls)
  /\ UNCHANGED << req, resp, messageTs, threadId, polls >>
  /\ UNCHANGED << storeVars, injVars, waitVars, replyVars, unitVars, convVars >>

\* addMessageToThread settles and the run is started on the thread.
AddMessageReturn(r, ok) ==
  /\ pc[r] = "addMessage"
  /\ IF ok
       THEN /\ calls' = [calls EXCEPT ![r] =
                           Append(@, Call("createRun", threadId[r]))]
            /\ pc' = [pc EXCEPT ![r] = "createRun"]
            /\ caught' = caught
       ELSE OnTurnError(r, "addMessageToThread", calls)
  /\ UNCHANGED << req, resp, messageTs, threadId, polls >>
  /\ UNCHANGED << storeVars, injVars, waitVars, replyVars, unitVars, convVars >>

CreateRunStep(r, ok) ==
  /\ pc[r] = "createRun"
  /\ IF ok
       THEN /\ pc' = [pc EXCEPT ![r] = "poll"]
            /\ calls' = [calls EXCEPT ![r] =
                           Append(@, Call("waitForRunCompletion", threadId[r]))]
            /\ caught' = caught
       ELSE OnTurnError(r, "createRun", calls)
  /\ UNCHANGED << req, resp, messageTs, threadId, polls >>
  /\ UNCHANGED << storeVars, injVars, waitVars, replyVars, unitVars >>

CreateRunReturn(r, ok) == CreateRunStep(r, ok) /\ UNCHANGED convVars

PollIter_Bounded(r, st) ==
  /\ pc[r] = "poll"
  /\ CASE PollStep(st) = "again" /\ polls[r] < 1 ->
             /\ polls' = [polls EXCEPT ![r] = @ + 1]
             /\ UNCHANGED << pc, caught, calls >>
        [] PollStep(st) = "return" ->
             /\ calls' = [calls EXCEPT ![r] =
                            Append(@, Call("getLatestAssistantMessage",
                                           threadId[r]))]
             /\ pc' = [pc EXCEPT ![r] = "getReply"]
             /\ polls' = [polls EXCEPT ![r] = 0]
             /\ caught' = caught
        [] OTHER ->
             /\ OnTurnError(r, "waitForRunCompletion", calls)
             /\ polls' = [polls EXCEPT ![r] = 0]
  /\ UNCHANGED << req, resp, messageTs, threadId >>
  /\ UNCHANGED << storeVars, injVars, replyVars, unitVars, convVars >>

\* One sleep-then-fetch iteration of waitForRunCompletion inside the turn;
\* polls is the loop's iteration count and dies with the loop.
PollIter(r, st) ==
  /\ pc[r] = "poll"
  /\ CASE PollStep(st) = "again" ->
             /\ polls' = [polls EXCEPT ![r] = @ + 1]
             /\ UNCHANGED << pc, caught, calls >>
        [] PollStep(st) = "return" ->
             /\ calls' = [calls EXCEPT ![r] =
                            Append(@, Call("getLatestAssistantMessage",
                                           threadId[r]))]
             /\ pc' = [pc EXCEPT ![r] = "getReply"]
             /\ polls' = [polls EXCEPT ![r] = 0]
             /\ caught' = caught
        [] OTHER ->
             /\ OnTurnError(r, "waitForRunCompletion", calls)
             /\ polls' = [polls EXCEPT ![r] = 0]
  /\ UNCHANGED << req, resp, messageTs, threadId >>
  /\ UNCHANGED << storeVars, injVars, replyVars, unitVars, convVars >>

\* The iteration on any status the backend may report; the number of
\* iterations explored is capped, the loop itself has no cap.
PollReturn(r, st) ==
  /\ PollStep(st) = "again" => polls[r] < MaxPolls
  /\ PollIter(r, st)
  /\ UNCHANGED waitVars

\* The iteration inside a turn whose run reports the statuses of wSeq, one
\* per fetch.
PollOfRun(r) ==
  /\ pc[r] = "poll"
  /\ wFetched < Len(wSeq)
  /\ PollIter(r, wSeq[wFetched + 1])
  /\ wFetched' = wFetched + 1
  /\ UNCHANGED << wSeq, wOut, wErr >>

\* getLatestAssistantMessage settles; on success the thinking message is
\* deleted when one was posted, and the reply is sent.
GetReplyStep(r, ok) ==
  /\ pc[r] = "getReply"
  /\ LET u == req[r].body.event.user
     IN  IF ~ok THEN OnTurnError(r, "getLatestAssistantMessage", calls)
         ELSE IF Truthy(messageTs[r])
           THEN /\ calls' = [calls EXCEPT ![r] =
                               Append(@, Call("deleteMessage", u))]
                /\ pc' = [pc EXCEPT ![r] = "delete"]
                /\ caught' = caught
         ELSE /\ calls' = [calls EXCEPT ![r] =
                             Append(@, Call("sendMessage:reply", u))]
              /\ pc' = [pc EXCEPT ![r] = "sendReply"]
              /\ caught' = caught
  /\ UNCHANGED << req, resp, messageTs, threadId, polls >>
  /\ UNCHANGED << storeVars, injVars, waitVars, unitVars >>

\* The turn's await of getLatestAssistantMessage with the text itself left
\* out: only whether it returned.
GetReplyReturn(r, ok) ==
  GetReplyStep(r, ok) /\ UNCHANGED << replyVars, convVars >>

DeleteReturn_ApologyOnFail(r, deleted) ==
  /\ pc[r] = "delete"
  /\ IF deleted
       THEN /\ calls' = [calls EXCEPT ![r] =
                           Append(@, Call("sendMessage:reply",
                                          req[r].body.event.user))]
            /\ pc' = [pc EXCEPT ![r] = "sendReply"]
            /\ caught' = caught
       ELSE OnTurnError(r, "deleteMessage", calls)
  /\ UNCHANGED << req, resp, messageTs, threadId, polls >>
  /\ UNCHANGED << storeVars, injVars, waitVars, replyVars, unitVars, convVars >>

\* deleteMessage settles (true or false, never a throw; the result is
\* dropped) and the reply is sent.
DeleteReturn(r, deleted) ==
  /\ pc[r] = "delete"
  /\ calls' = [calls EXCEPT ![r] =
                 Append(@, Call("sendMessage:reply", req[r].body.event.user))]
  /\ pc' = [pc EXCEPT ![r] = "sendReply"]
  /\ UNCHANGED << req, resp, messageTs, threadId, polls, caught >>
  /\ UNCHANGED << storeVars, injVars, waitVars, replyVars, unitVars, convVars >>

SendReturn_ApologyOnFalse(r, success) ==
  /\ pc[r] \in { "sendReply", "apology" }
  /\ IF pc[r] = "sendReply" /\ ~success
       THEN OnTurnError(r, "sendMessage", calls)
       ELSE /\ pc' = [pc EXCEPT ![r] = "done"]
            /\ UNCHANGED << caught, calls >>
  /\ UNCHANGED << req, resp, messageTs, threadId, polls >>
  /\ UNCHANGED << storeVars, injVars, waitVars, replyVars, unitVars, convVars >>

\* sendMessage settles (true or false, never a throw): the result is only
\* logged, both for the reply and for the apology.
SendReturn(r, success) ==
  /\ pc[r] \in { "sendReply", "apology" }
  /\ pc' = [pc EXCEPT ![r] = "done"]
  /\ UNCHANGED << req, resp, messageTs, threadId, polls, caught, calls >>
  /\ UNCHANGED << storeVars, injVars, waitVars, replyVars, unitVars, convVars >>


\* ------------------------------------------------ manual-injection handler
InjReq(username, message) == [username |-> username, message |-> message]
NoInjReq == InjReq(Undefined, Undefined)

\* message.trim().length === 0 over the message bodies of the model
Trim(m) == IF m = "  " THEN "" ELSE m

\* username.startsWith('@') ? username.slice(1) : username
CleanUsername(n) ==
  CASE n = "@u1" -> "u1"
    [] n = "@u2" -> "u2"
    [] OTHER     -> n

InjResponse(status, success, err) ==
  [status |-> status, success |-> success, error |-> err]
InjOk == InjResponse(200, TRUE, "")
InjFail(status, err) == InjResponse(status, FALSE, err)

InjRespond(i, r) ==
  /\ iresp' = [iresp EXCEPT ![i] = Append(@, r)]
  /\ ipc' = [ipc EXCEPT ![i] = "done"]

InjCall(i, op, arg) == icalls' = [icalls EXCEPT ![i] = Append(@, Call(op, arg))]

\* handleSendMessage from its entry to the user lookup.
InjReceive(i, in) ==
  /\ ipc[i] = "idle"
  /\ \A j \in Injs : j < i => ipc[j] # "idle"
  /\ ireq' = [ireq EXCEPT ![i] = in]
  /\ IF ~Truthy(in.username)
       THEN /\ InjRespond(i, InjFail(400, "Username is required as a query parameter"))
            /\ icalls' = icalls
     ELSE IF ~Truthy(in.message) \/ Trim(in.message) = ""
       THEN /\ InjRespond(i, InjFail(400, "Message is required in the request body as plain text"))
            /\ icalls' = icalls
     ELSE /\ ipc' = [ipc EXCEPT ![i] = "lookup"]
          /\ InjCall(i, "lookupUserByUsername", CleanUsername(in.username))
          /\ iresp' = iresp
  /\ UNCHANGED << iuser, idata, ithread >>
  /\ UNCHANGED << webVars, storeVars, waitVars, replyVars, unitVars, convVars >>

InjLookupReturn_NoCheck(i, uid) ==
  /\ ipc[i] = "lookup"
  /\ iuser' = [iuser EXCEPT ![i] = uid]
  /\ ipc' = [ipc EXCEPT ![i] = "openDM"]
  /\ InjCall(i, "openDirectMessage", uid)
  /\ UNCHANGED << ireq, iresp, idata, ithread >>
  /\ UNCHANGED << webVars, storeVars, waitVars, replyVars, unitVars, convVars >>

InjLookupReturn(i, uid) ==
  /\ ipc[i] = "lookup"
  /\ IF ~Truthy(uid)
       THEN /\ InjRespond(i, InjFail(404, "User not found"))
            /\ UNCHANGED << iuser, icalls >>
       ELSE /\ iuser' = [iuser EXCEPT ![i] = uid]
            /\ ipc' = [ipc EXCEPT ![i] = "openDM"]
            /\ InjCall(i, "openDirectMessage", uid)
            /\ iresp' = iresp
  /\ UNCHANGED << ireq, idata, ithread >>
  /\ UNCHANGED << webVars, storeVars, waitVars, replyVars, unitVars, convVars >>

InjOpenReturn(i, ch) ==
  /\ ipc[i] = "openDM"
  /\ IF ~Truthy(ch)
       THEN /\ InjRespond(i, InjFail(500, "Failed to open direct message channel with user"))
            /\ icalls' = icalls
       ELSE /\ ipc' = [ipc EXCEPT ![i] = "image"]
            /\ InjCall(i, "generateKPIImageChart", "")
            /\ iresp' = iresp
  /\ UNCHANGED << ireq, iuser, idata, ithread >>
  /\ UNCHANGED << webVars, storeVars, waitVars, replyVars, unitVars, convVars >>

InjImageReturn_Unhandled(i, ok) ==
  /\ ipc[i] = "image"
  /\ IF ~ok
       THEN /\ ipc' = [ipc EXCEPT ![i] = "done"]
            /\ UNCHANGED << iresp, icalls >>
       ELSE /\ ipc' = [ipc EXCEPT ![i] = "upload"]
            /\ InjCall(i, "uploadImage", "kpi.png")
            /\ iresp' = iresp
  /\ UNCHANGED << ireq, iuser, idata, ithread >>
  /\ UNCHANGED << webVars, storeVars, waitVars, replyVars, unitVars, convVars >>

\* generateKPIImageChart settles: a rendering failure is an exception that
\* reaches the top-level catch.
InjImageReturn(i, ok) ==
  /\ ipc[i] = "image"
  /\ IF ~ok
       THEN /\ InjRespond(i, InjFail(500, "Internal server error"))
            /\ icalls' = icalls
       ELSE /\ ipc' = [ipc EXCEPT ![i] = "upload"]
            /\ InjCall(i, "uploadImage", "kpi.png")
            /\ iresp' = iresp
  /\ UNCHANGED << ireq, iuser, idata, ithread >>
  /\ UNCHANGED << webVars, storeVars, waitVars, replyVars, unitVars, convVars >>

\* uploadImage settles: with a result the upload is verified, without one
\* the blocks are sent without the image.
InjUploadReturn(i, uploaded) ==
  /\ ipc[i] = "upload"
  /\ IF uploaded
       THEN /\ ipc' = [ipc EXCEPT ![i] = "verify"]
            /\ InjCall(i, "waitForFileUpload", "file")
       ELSE /\ ipc' = [ipc EXCEPT ![i] = "send"]
            /\ InjCall(i, "sendBlocks", iuser[i])
  /\ UNCHANGED << ireq, iresp, iuser, idata, ithread >>
  /\ UNCHANGED << webVars, storeVars, waitVars, replyVars, unitVars, convVars >>

InjVerifyReturn(i, isUploaded) ==
  /\ ipc[i] = "verify"
  /\ IF ~isUploaded
       THEN /\ InjRespond(i, InjFail(500, "KPI image was not uploaded"))
            /\ icalls' = icalls
       ELSE /\ ipc' = [ipc EXCEPT ![i] = "send"]
            /\ InjCall(i, "sendBlocks", iuser[i])
            /\ iresp' = iresp
  /\ UNCHANGED << ireq, iuser, idata, ithread >>
  /\ UNCHANGED << webVars, storeVars, waitVars, replyVars, unitVars, convVars >>

\* The ThreadStorage the handler resolves the thread through once the
\* blocks were delivered (line 657): a new instance loaded from the file.
InjStorage(f) == LoadFromFile(f)

\* The content appended to the thread: the request's message inside the
\* instruction that tells the assistant to keep it as context.
InjPrompt(message) ==
  << "There's a new message coming from the System to the user.",
     "You don't need to respond to the message", message >>

\* The arguments of openaiService.addMessageToThread(threadId, prompt)
AppendArgs(t, prompt) == [thread |-> t, content |-> prompt]

\* sendBlocks settles; on success the handler constructs its ThreadStorage
\* and looks the user's thread up.
InjSendReturn(i, messageSent) ==
  /\ ipc[i] = "send"
  /\ IF ~messageSent
       THEN /\ InjRespond(i, InjFail(500, "Failed to send message to user"))
            /\ UNCHANGED << icalls, idata, ithread, file >>
       ELSE LET m == InjStorage(file)
                t == MapGet(m, iuser[i])
            IN  /\ idata' = [idata EXCEPT ![i] = m]
                /\ file' = FileAfterLoad(file)
                /\ iresp' = iresp
                /\ IF t = NoThread
                     THEN /\ ipc' = [ipc EXCEPT ![i] = "createThread"]
                          /\ ithread' = ithread
                          /\ icalls' = [icalls EXCEPT ![i] =
                                          @ \o << Call("get", iuser[i]),
                                                  Call("createThread", iuser[i]) >>]
                     ELSE /\ ipc' = [ipc EXCEPT ![i] = "append"]
                          /\ ithread' = [ithread EXCEPT ![i] = t]
                          /\ icalls' = [icalls EXCEPT ![i] =
                                          @ \o << Call("get", iuser[i]),
                                                  Call("addMessageToThread",
                                                       AppendArgs(t, InjPrompt(ireq[i].message))) >>]
  /\ UNCHANGED << ireq, iuser, data, nextThread >>
  /\ UNCHANGED << webVars, waitVars, replyVars, unitVars, convVars >>

\* createThread settles; the new id is stored through the handler's own
\* ThreadStorage, which rewrites the file from its own Map.
InjCreateThreadReturn(i, ok) ==
  /\ ipc[i] = "createThread"
  /\ IF ~ok
       THEN /\ InjRespond(i, InjFail(500, "Internal server error"))
            /\ UNCHANGED << icalls, idata, ithread, file, nextThread >>
       ELSE LET t == ThreadNames[nextThread]
            IN  /\ nextThread' = nextThread + 1
                /\ ithread' = [ithread EXCEPT ![i] = t]
                /\ idata' = [idata EXCEPT ![i] = MapSet(@, iuser[i], t)]
                /\ file' = FileOf(idata'[i])
                /\ icalls' = [icalls EXCEPT ![i] =
                                @ \o << Call("set", iuser[i]),
                                        Call("addMessageToThread",
                                             AppendArgs(t, InjPrompt(ireq[i].message))) >>]
                /\ ipc' = [ipc EXCEPT ![i] = "append"]
                /\ iresp' = iresp
  /\ UNCHANGED << ireq, iuser, data >>
  /\ UNCHANGED << webVars, waitVars, replyVars, unitVars, convVars >>

InjAppendReturn_StartsRun(i, ok) ==
  /\ ipc[i] = "append"
  /\ InjRespond(i, IF ok THEN InjOk ELSE InjFail(500, "Internal server error"))
  /\ icalls' = [icalls EXCEPT ![i] = Append(@, Call("createRun", ithread[i]))]
  /\ UNCHANGED << ireq, iuser, idata, ithread >>
  /\ UNCHANGED << webVars, storeVars, waitVars, replyVars, unitVars, convVars >>

\* addMessageToThread settles: 200 on success; a rejection reaches the
\* top-level catch.
InjAppendReturn(i, ok) ==
  /\ ipc[i] = "append"
  /\ InjRespond(i, IF ok THEN InjOk ELSE InjFail(500, "Internal server error"))
  /\ UNCHANGED << ireq, iuser, idata, ithread, icalls >>
  /\ UNCHANGED << webVars, storeVars, waitVars, replyVars, unitVars, convVars >>


\* ------------------------------------------------ a ThreadStorage instance
\* Map.prototype.delete
MapDelete_Keep(m, u) == m

MapDelete(m, u) == [x \in (DOMAIN m) \ { u } |-> m[x]]

SaveToFile_Merges(m, f, writeOk) ==
  IF writeOk
    THEN [state |-> "ok",
          json  |-> ToJson(m) \cup { p \in f.json : p[1] \notin DOMAIN m }]
    ELSE f

\* saveToFile: writeFileSync inside a try whose catch only logs, so a
\* failed write leaves the file as it was and nothing is raised.
SaveToFile(m, f, writeOk) == IF writeOk THEN FileOf(m) ELSE f

\* get / has / size / getAll on the instance's Map
StoreGet(m, u) == MapGet(m, u)
StoreHas(m, u) == u \in DOMAIN m
StoreSize(m) == Cardinality(DOMAIN m)
StoreGetAll(m) == ToJson(m)

StoreOp(op, user, thread) == [op |-> op, user |-> user, thread |-> thread]

\* new ThreadStorage(): an empty Map, then loadFromFile; its catch resets
\* the Map and saves, and saveToFile catches its own failure.
StoreConstruct(writeOk) ==
  /\ sState = "unbuilt"
  /\ data' = LoadFromFile(file)
  /\ file' = IF file.state = "ok" THEN file
             ELSE SaveToFile(EmptyMap, file, writeOk)
  /\ sState' = "built"
  /\ sBase' = data'
  /\ sHist' = << >>
  /\ UNCHANGED << nextThread, webVars, injVars, waitVars, replyVars, convVars >>
  /\ UNCHANGED << clientVars, verifyVars, uploadVars, chainVars >>

StoreSet(u, t, writeOk) ==
  /\ sState = "built" /\ Len(sHist) < MaxOps
  /\ data' = MapSet(data, u, t)
  /\ file' = SaveToFile(data', file, writeOk)
  /\ sHist' = Append(sHist, StoreOp("set", u, t))
  /\ UNCHANGED << sState, sBase >>
  /\ UNCHANGED << nextThread, webVars, injVars, waitVars, replyVars, convVars >>
  /\ UNCHANGED << clientVars, verifyVars, uploadVars, chainVars >>

StoreDelete(u, writeOk) ==
  /\ sState = "built" /\ Len(sHist) < MaxOps
  /\ data' = MapDelete(data, u)
  /\ file' = SaveToFile(data', file, writeOk)
  /\ sHist' = Append(sHist, StoreOp("delete", u, NoThread))
  /\ UNCHANGED << sState, sBase >>
  /\ UNCHANGED << nextThread, webVars, injVars, waitVars, replyVars, convVars >>
  /\ UNCHANGED << clientVars, verifyVars, uploadVars, chainVars >>

StoreClear(writeOk) ==
  /\ sState = "built" /\ Len(sHist) < MaxOps
  /\ data' = EmptyMap
  /\ file' = SaveToFile(data', file, writeOk)
  /\ sHist' = Append(sHist, StoreOp("clear", Undefined, NoThread))
  /\ UNCHANGED << sState, sBase >>
  /\ UNCHANGED << nextThread, webVars, injVars, waitVars, replyVars, convVars >>
  /\ UNCHANGED << clientVars, verifyVars, uploadVars, chainVars >>

\* ------------------------------------------------------- verifier calls
VerifyCall ==
  /\ vOut = "pending"
  /\ vOut' = VerifyOutcome(vIn.body, vIn.signature, vIn.timestamp, vIn.secret)
  /\ UNCHANGED << vIn, vFresh >>
  /\ UNCHANGED << webVars, storeVars, injVars, waitVars, replyVars, convVars >>
  /\ UNCHANGED << clientVars, unitStoreVars, uploadVars, chainVars >>

FreshCall ==
  /\ vFresh = "pending"
  /\ vFresh' = IF validateTimestamp(vIn.timestamp) THEN "true" ELSE "false"
  /\ UNCHANGED << vIn, vOut >>
  /\ UNCHANGED << webVars, storeVars, injVars, waitVars, replyVars, convVars >>
  /\ UNCHANGED << clientVars, unitStoreVars, uploadVars, chainVars >>

\* ------------------------------------------- middleware chain of index.ts
HttpReq(path, contentType, bytes) ==
  [path |-> path, contentType |-> contentType, bytes |-> bytes]

\* req.body: undefined, the {} a body parser leaves when it does not
\* read, the value parsed from the bytes, or a Buffer of the bytes.
ReqBody(kind, bytes) == [kind |-> kind, bytes |-> bytes]

ChainResponse(status, err) == [status |-> status, error |-> err]

\* The bytes a request can carry: the text of a JSON object, the text of a
\* JSON number, text that is not JSON, or no body at all.
WireBodies == { "object", "number", "malformed", "" }
ContentTypes ==
  { "application/json", "application/json; charset=utf-8", "text/plain",
    Undefined }
Paths == { "/slack/events", "/api/send-message", "/health" }

\* JSON.parse succeeds
Parses(bytes) == bytes \in { "object", "number" }
\* the type a body parser registered for 'application/json' reads
IsJsonType(contentType) ==
  contentType \in { "application/json", "application/json; charset=utf-8" }
\* app.use('/slack/events', ...) runs its middleware on that path only
OnSlackEvents == hReq.path = "/slack/events"

\* What a body parser does before reading: nothing when an earlier parser
\* has read the body (req._body); else req.body = req.body || {}, and it
\* reads only a request that has a body of its type.
ParserReads ==
  ~hParsed /\ hReq.bytes # "" /\ IsJsonType(hReq.contentType)
BodyOrEmpty ==
  IF hParsed \/ hBody.kind # "undefined" THEN hBody
  ELSE ReqBody("emptyObject", "")

ChainFrame ==
  /\ UNCHANGED << webVars, storeVars, injVars, waitVars, replyVars, convVars >>
  /\ UNCHANGED << clientVars, unitStoreVars, verifyVars, uploadVars >>

\* app.use(express.json()), line 22: parses the body of every request of
\* JSON content type, whatever its path. In strict mode only an object or
\* an array is accepted; a failed parse goes to errorHandler.
ExpressJson ==
  /\ hPc = "express.json"
  /\ IF ParserReads
       THEN IF hReq.bytes = "object"
              THEN /\ hBody' = ReqBody("parsed", hReq.bytes)
                   /\ hParsed' = TRUE
                   /\ hPc' = "express.raw"
                   /\ hResp' = hResp
              ELSE /\ hResp' = Append(hResp,
                                      ChainResponse(500, "Internal server error"))
                   /\ hPc' = "responded"
                   /\ UNCHANGED << hBody, hParsed >>
       ELSE /\ hBody' = BodyOrEmpty
            /\ hPc' = "express.raw"
            /\ UNCHANGED << hParsed, hResp >>
  /\ UNCHANGED << hReq, hRawBody >>
  /\ ChainFrame

\* app.use('/slack/events', express.raw({ type: 'application/json' })),
\* line 23: leaves the bytes in a Buffer, unless a parser read them before.
ExpressRaw ==
  /\ hPc = "express.raw"
  /\ IF OnSlackEvents
       THEN IF ParserReads
              THEN /\ hBody' = ReqBody("buffer", hReq.bytes)
                   /\ hParsed' = TRUE
              ELSE /\ hBody' = BodyOrEmpty
                   /\ hParsed' = hParsed
       ELSE UNCHANGED << hBody, hParsed >>
  /\ hPc' = "slackBodyParser"
  /\ UNCHANGED << hReq, hRawBody, hResp >>
  /\ ChainFrame

\* app.use('/slack/events', slackBodyParser), line 24.
SlackBodyParser ==
  /\ hPc = "slackBodyParser"
  /\ IF ~OnSlackEvents
       THEN /\ hPc' = "routes"
            /\ UNCHANGED << hBody, hRawBody, hResp >>
       ELSE IF hBody.kind # "buffer"
         THEN /\ hResp' = Append(hResp,
                    ChainResponse(400, "Invalid body format for Slack events"))
              /\ hPc' = "responded"
              /\ UNCHANGED << hBody, hRawBody >>
       ELSE IF ~Parses(hBody.bytes)
         THEN /\ hResp' = Append(hResp, ChainResponse(400, "Invalid JSON body"))
              /\ hPc' = "responded"
              /\ UNCHANGED << hBody, hRawBody >>
       ELSE /\ hRawBody' = hBody.bytes
            /\ hBody' = ReqBody("parsed", hBody.bytes)
            /\ hPc' = "routes"
            /\ hResp' = hResp
  /\ UNCHANGED << hReq, hParsed >>
  /\ ChainFrame

\* app.use('/', routes), line 25: the route's handler is called with the
\* request as the chain left it.
Routes ==
  /\ hPc = "routes"
  /\ hPc' = "handler"
  /\ UNCHANGED << hReq, hBody, hParsed, hRawBody, hResp >>
  /\ ChainFrame

\* ------------------------------------------------------ waitForFileUpload
UploadArgs(maxRetries, retryDelay) ==
  [maxRetries |-> maxRetries, retryDelay |-> retryDelay]

\* How the files.info request of one verification settles: rejected, or
\* answered with ok false, with no file or a deleted one, with a file
\* without url_private, with a file whose mimetype is not an image yet,
\* or with an accessible image.
FileInfos == { "throw", "apiError", "deleted", "noUrl", "processing", "image" }

InfoResponse(info) ==
  [ok         |-> info # "apiError",
   file       |-> info \notin { "apiError" },
   deleted    |-> info = "deleted",
   urlPrivate |-> info \in { "processing", "image" },
   isImage    |-> info = "image"]

\* try { ...files.info... } catch { return false }
verifyImageUpload(info) ==
  IF info = "throw" THEN FALSE
  ELSE LET response == InfoResponse(info) IN
    IF ~response.ok THEN FALSE
    ELSE IF ~response.file \/ response.deleted THEN FALSE
    ELSE IF ~response.urlPrivate THEN FALSE
    ELSE IF ~response.isImage THEN FALSE
    ELSE TRUE

\* for (let attempt = 1; attempt <= maxRetries; ...): the first test of
\* the loop condition.
UploadEnter ==
  /\ uPc = "called"
  /\ uAttempt' = 1
  /\ uPc' = IF 1 <= uArgs.maxRetries THEN "verify" ELSE "false"
  /\ UNCHANGED << uArgs, uInfo, uTried, uSleeps >>
  /\ UNCHANGED << webVars, storeVars, injVars, waitVars, replyVars, convVars >>
  /\ UNCHANGED << clientVars, unitStoreVars, verifyVars, chainVars >>

\* await this.verifyImageUpload(fileId) settling: return true, sleep, or
\* (no sleep after the last attempt) step the loop out and return false.
UploadVerifyReturn_SleepsAfterLast ==
  /\ uPc = "verify"
  /\ uTried' = uTried + 1
  /\ IF verifyImageUpload(uInfo[uAttempt])
       THEN uPc' = "true" /\ UNCHANGED uAttempt
       ELSE uPc' = "sleep" /\ UNCHANGED uAttempt
  /\ UNCHANGED << uArgs, uInfo, uSleeps >>
  /\ UNCHANGED << webVars, storeVars, injVars, waitVars, replyVars, convVars >>
  /\ UNCHANGED << clientVars, unitStoreVars, verifyVars, chainVars >>

UploadVerifyReturn ==
  /\ uPc = "verify"
  /\ uTried' = uTried + 1
  /\ IF verifyImageUpload(uInfo[uAttempt])
       THEN uPc' = "true" /\ UNCHANGED uAttempt
       ELSE IF uAttempt < uArgs.maxRetries
         THEN uPc' = "sleep" /\ UNCHANGED uAttempt
         ELSE uPc' = "false" /\ uAttempt' = uAttempt + 1
  /\ UNCHANGED << uArgs, uInfo, uSleeps >>
  /\ UNCHANGED << webVars, storeVars, injVars, waitVars, replyVars, convVars >>
  /\ UNCHANGED << clientVars, unitStoreVars, verifyVars, chainVars >>

\* setTimeout(resolve, retryDelay) firing, attempt++ and the loop test.
UploadSleepReturn ==
  /\ uPc = "sleep"
  /\ uSleeps' = Append(uSleeps, uArgs.retryDelay)
  /\ uAttempt' = uAttempt + 1
  /\ uPc' = IF uAttempt + 1 <= uArgs.maxRetries THEN "verify" ELSE "false"
  /\ UNCHANGED << uArgs, uInfo, uTried >>
  /\ UNCHANGED << webVars, storeVars, injVars, waitVars, replyVars, convVars >>
  /\ UNCHANGED << clientVars, unitStoreVars, verifyVars, chainVars >>

\* ---------------------------------------------- conversation client calls
ClientOps ==
  { "createThread", "addMessageToThread", "createRun", "getRunStatus",
    "getThreadMessages" }

\* How the axios request of an operation settles: with a response, or
\* rejected with a network error or an HTTP error status.
Causes == { "ok", "ECONNRESET", "status401", "status500" }

ClientOutcome(out, err) == [out |-> out, err |-> err]

\* The Error the catch block of each operation throws.
ClientError(op) ==
  CASE op = "createThread"       -> "Failed to create OpenAI thread"
    [] op = "addMessageToThread" -> "Failed to add message to thread"
    [] op = "createRun"          -> "Failed to create OpenAI run"
    [] op = "getRunStatus"       -> "Failed to get run status"
    [] op = "getThreadMessages"  -> "Failed to get thread messages"

\* try { return (await axios...).data } catch { handleError; throw new Error }
ClientCall_Passthrough(op, cause) ==
  IF cause = "ok" THEN ClientOutcome("returned", "")
  ELSE ClientOutcome("raised", cause)

ClientCall(op, cause) ==
  IF cause = "ok" THEN ClientOutcome("returned", "")
  ELSE ClientOutcome("raised", ClientError(op))

ClientReturn(op, cause) ==
  /\ cOut.out = "pending"
  /\ cOp' = op
  /\ cCause' = cause
  /\ cOut' = ClientCall(op, cause)
  /\ UNCHANGED << webVars, storeVars, injVars, waitVars, replyVars, convVars >>
  /\ UNCHANGED << unitStoreVars, verifyVars, uploadVars, chainVars >>

\* ------------------------------------------------- waitForRunCompletion
\* What the error raised out of the loop carries: the status named by
\* 'Run failed with status: ...', or the error of getRunStatus, which the
\* loop does not catch.
PollError(st) == IF st = "throw" THEN ClientError("getRunStatus") ELSE st

\* One iteration of the do-while loop: sleep, fetch the next status the
\* backend reports, throw on a failure status, leave the loop on completed.
WaitIter ==
  /\ wOut = "running"
  /\ wFetched < Len(wSeq)
  /\ LET st == wSeq[wFetched + 1]
     IN  /\ wFetched' = wFetched + 1
         /\ CASE PollStep(st) = "raise"  -> wOut' = "raised" /\ wErr' = PollError(st)
              [] PollStep(st) = "return" -> wOut' = "returned" /\ wErr' = wErr
              [] OTHER                   -> UNCHANGED << wOut, wErr >>
  /\ wSeq' = wSeq
  /\ UNCHANGED << webVars, storeVars, injVars, replyVars, unitVars, convVars >>

\* --------------------------------------------- getLatestAssistantMessage
Text(msg, k) == [msg |-> msg, block |-> k]
NoText == Text(0, 0)
Block(type, text) == [type |-> type, text |-> text]
ContentKinds == { "text", "image_text", "image", "text_text" }
Content(kind, at) ==
  CASE kind = "text"       -> << Block("text", Text(at, 1)) >>
    [] kind = "image_text" -> << Block("image_file", NoText),
                                 Block("text", Text(at, 2)) >>
    [] kind = "image"      -> << Block("image_file", NoText) >>
    [] kind = "text_text"  -> << Block("text", Text(at, 1)),
                                 Block("text", Text(at, 2)) >>
Message(role, at, kind) ==
  [role |-> role, created_at |-> at, content |-> Content(kind, at)]

\* messages.find(msg => msg.role === 'assistant'): the index of the first
\* assistant-authored element in list order, 0 when there is none.
FirstAssistant(messages) ==
  LET hits == { k \in 1..Len(messages) : messages[k].role = "assistant" }
  IN  IF hits = {} THEN 0 ELSE CHOOSE k \in hits : \A j \in hits : k <= j

\* content.find(content => content.type === 'text')
FirstTextBlock(content) ==
  LET hits == { k \in 1..Len(content) : content[k].type = "text" }
  IN  IF hits = {} THEN 0 ELSE CHOOSE k \in hits : \A j \in hits : k <= j

Outcome(out, val) == [out |-> out, val |-> val]

\* getLatestAssistantMessage on the list getThreadMessages returned: both
\* inner errors are re-raised as 'Failed to get assistant response'.
getLatestAssistantMessage_BlankOnNoText(messages) ==
  LET a == FirstAssistant(messages)
  IN  IF a = 0 THEN Outcome("raised", NoText)
      ELSE LET b == FirstTextBlock(messages[a].content)
           IN  IF b = 0 THEN Outcome("returned", NoText)
               ELSE Outcome("returned", messages[a].content[b].text)

getLatestAssistantMessage(messages) ==
  LET a == FirstAssistant(messages)
  IN  IF a = 0 THEN Outcome("raised", NoText)
      ELSE LET b == FirstTextBlock(messages[a].content)
           IN  IF b = 0 THEN Outcome("raised", NoText)
               ELSE Outcome("returned", messages[a].content[b].text)

\* getLatestAssistantMessage from its call of getThreadMessages on, which
\* settles with the list ("ok") or raises 'Failed to get thread messages'
\* ("throw"): a failed fetch is caught by the same catch block and
\* re-raised.
LatestAssistantMessageOfThread(fetch, messages) ==
  IF fetch = "throw" THEN Outcome("raised", NoText)
  ELSE getLatestAssistantMessage(messages)

\* The turn's await of getLatestAssistantMessage (lines 144-145), with
\* what the backend answers: a failed fetch hands no list over.
GetReplyOfThread(r, fetch, messages) ==
  /\ pc[r] = "getReply"
  /\ fetch = "throw" => messages = << >>
  /\ mFetch' = fetch
  /\ mList' = IF fetch = "ok" THEN messages ELSE mList
  /\ mOut' = LatestAssistantMessageOfThread(fetch, messages)
  /\ assistantResponse' =
       IF mOut'.out = "returned"
         THEN [assistantResponse EXCEPT ![r] = mOut'.val]
         ELSE assistantResponse
  /\ run' = run
  /\ GetReplyStep(r, mOut'.out = "returned")

ReplyFetch ==
  /\ mOut.out = "pending"
  /\ mOut' = getLatestAssistantMessage(mList)
  /\ UNCHANGED << mList, mFetch >>
  /\ UNCHANGED << webVars, storeVars, injVars, waitVars, unitVars, convVars >>


\* ------------------------------------------------------------ inputs
\* Requests of the concurrency specifications: verified direct messages
\* of the given users, one forged request and one channel (non-DM) message.
TurnInputs(users) ==
  { Verified(DmBody(u, OtherAppId)) : u \in users }
    \cup { WebReq(ExpectedSignature(RawBody, "1000", "wrong"), "1000",
                  SigningSecret, SelfAppId, RawBody, DmBody("U1", OtherAppId)),
           Verified(Body(FALSE, "event_callback", Undefined, TRUE,
                         Event("message", "U1", FALSE, "C1", OtherAppId))) }

\* Requests of the single-request specification: every combination of
\* credentials on two bodies, and every body under good credentials.
GateTimestamps == { Undefined, "abc", "700", "701", "1000", "1300" }
GateSignatures(ts) ==
  { NoSignature, ShortSignature,
    ExpectedSignature(RawBody, ts, "wrong"),
    ExpectedSignature(RawBody, ts, SigningSecret) }
GateEvents ==
  { Event(ty, u, h, ch, a) :
      ty \in { "message", "reaction_added" }, u \in { Undefined, "U1" },
      h \in BOOLEAN, ch \in { Undefined, "D1", "C1" },
      a \in { Undefined, SelfAppId, OtherAppId } }
GateBodies ==
  { Body(TRUE, Undefined, Undefined, FALSE, NoEvent) }
    \cup { Body(FALSE, ty[1], ty[2], FALSE, NoEvent) : ty \in
             { <<"url_verification", Undefined>>, <<"url_verification", "">>,
               <<"url_verification", "abc123">>,
               <<"event_callback", Undefined>>, <<"app_rate_limited", Undefined>> } }
    \cup { Body(FALSE, ty[1], ty[2], TRUE, ev) : ty \in
             { <<"url_verification", Undefined>>, <<"url_verification", "">>,
               <<"url_verification", "abc123">>,
               <<"event_callback", Undefined>>, <<"app_rate_limited", Undefined>> },
             ev \in GateEvents }
GateInputs ==
  { WebReq(sig, ts, sec, SelfAppId, RawBody, b) :
      ts \in GateTimestamps, sig \in UNION { GateSignatures(t) : t \in GateTimestamps },
      sec \in { Undefined, SigningSecret },
      b \in { DmBody("U1", OtherAppId),
              Body(FALSE, "url_verification", "abc123", FALSE, NoEvent) } }
    \cup { WebReq(GoodSig, "1000", SigningSecret, env, RawBody, b) :
             env \in { Undefined, SelfAppId }, b \in GateBodies }

InjInputs ==
  { InjReq(Undefined, "hello"), InjReq("u1", ""), InjReq("u1", "  "),
    InjReq("u1", "hello"), InjReq("@u2", "hello") }

\* The workspace directory lookupUserByUsername searches.
Directory(name) ==
  CASE name = "u1" -> "U1"
    [] name = "u2" -> "U2"
    [] OTHER       -> Undefined

StatusScripts ==
  UNION { [1..n -> Statuses] : n \in 1..MaxStatusLen }

\* Creation times of a list of n messages: distinct, in any order.
CreationTimes(n) ==
  { f \in [1..n -> 1..n] : \A i, j \in 1..n : i # j => f[i] # f[j] }

\* ------------------------------------------------------------------ Init
\* The state once the module of the dispatcher is loaded: its ThreadStorage
\* was constructed against a missing file, which it created empty.
WebInit ==
  /\ pc = [r \in Reqs |-> "idle"]
  /\ req = [r \in Reqs |-> NoReq]
  /\ resp = [r \in Reqs |-> << >>]
  /\ messageTs = [r \in Reqs |-> Undefined]
  /\ threadId = [r \in Reqs |-> NoThread]
  /\ polls = [r \in Reqs |-> 0]
  /\ caught = [r \in Reqs |-> ""]
  /\ calls = [r \in Reqs |-> << >>]
  /\ run = [r \in Reqs |-> NoRun]
  /\ assistantResponse = [r \in Reqs |-> NoText]

StoreInit ==
  /\ data = LoadFromFile([state |-> "missing", json |-> {}])
  /\ file = FileOf(data)
  /\ nextThread = 1

InjInit ==
  /\ ipc = [i \in Injs |-> "idle"]
  /\ ireq = [i \in Injs |-> NoInjReq]
  /\ iresp = [i \in Injs |-> << >>]
  /\ iuser = [i \in Injs |-> Undefined]
  /\ idata = [i \in Injs |-> EmptyMap]
  /\ ithread = [i \in Injs |-> NoThread]
  /\ icalls = [i \in Injs |-> << >>]

WaitIdle ==
  /\ wSeq = << >>
  /\ wFetched = 0
  /\ wOut = "idle"
  /\ wErr = ""

ReplyIdle ==
  /\ mList = << >>
  /\ mOut = Outcome("idle", NoText)
  /\ mFetch = "ok"

ClientIdle ==
  /\ cOp = ""
  /\ cCause = ""
  /\ cOut = ClientOutcome("idle", "")

UnitStoreIdle ==
  /\ sState = "idle"
  /\ sBase = EmptyMap
  /\ sHist = << >>

VerifyIdle ==
  /\ vIn = VerifyArgs(Undefined, NoSignature, Undefined, Undefined)
  /\ vOut = "idle"
  /\ vFresh = "idle"

UploadIdle ==
  /\ uArgs = UploadArgs(0, 0)
  /\ uInfo = << >>
  /\ uAttempt = 0
  /\ uTried = 0
  /\ uSleeps = << >>
  /\ uPc = "idle"

ChainIdle ==
  /\ hReq = HttpReq(Undefined, Undefined, "")
  /\ hBody = ReqBody("undefined", "")
  /\ hParsed = FALSE
  /\ hRawBody = Undefined
  /\ hPc = "idle"
  /\ hResp = << >>

UnitIdle ==
  ClientIdle /\ UnitStoreIdle /\ VerifyIdle /\ UploadIdle /\ ChainIdle

Init == WebInit /\ StoreInit /\ InjInit /\ WaitIdle /\ ReplyIdle /\ UnitIdle

\* ------------------------------------------------------------------ Next
TypingResults == { Undefined, "1234.5678" }

\* The awaits of the turn other than the poll loop and the reply fetch.
TurnOther(r) ==
  \/ \E ts \in TypingResults : TypingReturn(r, ts)
  \/ \E ok \in BOOLEAN : CreateThreadReturn(r, ok)
  \/ \E ok \in BOOLEAN : AddMessageReturn(r, ok)
  \/ \E ok \in BOOLEAN : CreateRunReturn(r, ok)
  \/ \E deleted \in BOOLEAN : DeleteReturn(r, deleted)
  \/ \E success \in BOOLEAN : SendReturn(r, success)

\* What a status fetch of the concurrent specifications can give: one
\* status of each kind the loop tells apart, and a failed fetch. Every
\* status goes through the loop in SpecWait, SpecClient and SpecTurnWait.
PollResults == { "queued", "completed", "failed", "throw" }

\* The awaits of the turn other than the reply fetch.
TurnCalls(r) ==
  \/ TurnOther(r)
  \/ \E st \in PollResults : PollReturn(r, st)

Turn(r) ==
  \/ TurnCalls(r)
  \/ \E ok \in BOOLEAN : GetReplyReturn(r, ok)

Injection(i) ==
  \/ \E in \in InjInputs : InjReceive(i, in)
  \/ \E uid \in { Undefined, Directory(CleanUsername(ireq[i].username)) } :
       InjLookupReturn(i, uid)
  \/ \E ch \in { Undefined, "D1" } : InjOpenReturn(i, ch)
  \/ \E ok \in BOOLEAN : InjImageReturn(i, ok)
  \/ \E ok \in BOOLEAN : InjUploadReturn(i, ok)
  \/ \E ok \in BOOLEAN : InjVerifyReturn(i, ok)
  \/ \E ok \in BOOLEAN : InjSendReturn(i, ok)
  \/ \E ok \in BOOLEAN : InjCreateThreadReturn(i, ok)
  \/ \E ok \in BOOLEAN : InjAppendReturn(i, ok)

\* Concurrent webhook requests.
Next ==
  \E r \in Reqs :
    \/ \E in \in TurnInputs({ "U1" }) : Receive(r, in)
    \/ Turn(r)

Spec == Init /\ [][Next]_vars

\* One webhook request with any credentials and any payload.
NextGate ==
  \/ \E in \in GateInputs : Receive(1, in)
  \/ Turn(1)

SpecGate == Init /\ [][NextGate]_vars

\* One webhook request next to manual injections.
NextInj ==
  \/ \E in \in TurnInputs(Users) : Receive(1, in)
  \/ Turn(1)
  \/ \E i \in Injs : Injection(i)

SpecInj == Init /\ [][NextInj]_vars

\* waitForRunCompletion on every status script.
InitWait ==
  /\ WebInit /\ StoreInit /\ InjInit /\ ReplyIdle /\ UnitIdle
  /\ wSeq \in StatusScripts
  /\ wFetched = 0
  /\ wOut = "running"
  /\ wErr = ""

SpecWait == InitWait /\ [][WaitIter]_vars

\* waitForFileUpload with every maxRetries, on every sequence of answers
\* of files.info. A timer fires and a request settles, so the call's next
\* step is eventually taken.
RetryDelays == { 0, 500 }

InitUpload ==
  /\ WebInit /\ StoreInit /\ InjInit /\ WaitIdle /\ ReplyIdle
  /\ ClientIdle /\ UnitStoreIdle /\ VerifyIdle /\ ChainIdle
  /\ \E n \in 0..MaxRetries, d \in RetryDelays :
       /\ uArgs = UploadArgs(n, d)
       /\ uInfo \in [1..n -> FileInfos]
  /\ uAttempt = 0
  /\ uTried = 0
  /\ uSleeps = << >>
  /\ uPc = "called"

NextUpload == UploadEnter \/ UploadVerifyReturn \/ UploadSleepReturn

SpecUpload == InitUpload /\ [][NextUpload]_vars /\ WF_vars(NextUpload)

\* The middleware chain on every request.
InitChain ==
  /\ WebInit /\ StoreInit /\ InjInit /\ WaitIdle /\ ReplyIdle
  /\ ClientIdle /\ UnitStoreIdle /\ VerifyIdle /\ UploadIdle
  /\ \E path \in Paths, ct \in ContentTypes, bytes \in WireBodies :
       hReq = HttpReq(path, ct, bytes)
  /\ hBody = ReqBody("undefined", "")
  /\ hParsed = FALSE
  /\ hRawBody = Undefined
  /\ hPc = "express.json"
  /\ hResp = << >>

NextChain == ExpressJson \/ ExpressRaw \/ SlackBodyParser \/ Routes

SpecChain == InitChain /\ [][NextChain]_vars

\* getLatestAssistantMessage on every message list.
InitReply ==
  /\ WebInit /\ StoreInit /\ InjInit /\ WaitIdle /\ UnitIdle
  /\ \E n \in 1..MaxMsgs :
       \E role \in [1..n -> { "user", "assistant" }],
          kind \in [1..n -> ContentKinds], at \in CreationTimes(n) :
         mList = [k \in 1..n |-> Message(role[k], at[k], kind[k])]
  /\ mOut = Outcome("pending", NoText)
  /\ mFetch = "ok"

SpecReply == InitReply /\ [][ReplyFetch]_vars

\* Every client operation under every way its request settles, and
\* waitForRunCompletion on scripts in which getRunStatus may raise.
InitClient ==
  /\ WebInit /\ StoreInit /\ InjInit /\ ReplyIdle
  /\ UnitStoreIdle /\ VerifyIdle /\ UploadIdle /\ ChainIdle
  /\ wSeq \in UNION { [1..n -> Statuses \cup { "throw" }] : n \in 1..MaxStatusLen }
  /\ wFetched = 0
  /\ wOut = "running"
  /\ wErr = ""
  /\ cOp = ""
  /\ cCause = ""
  /\ cOut = ClientOutcome("pending", "")

NextClient ==
  \/ \E op \in ClientOps, cause \in Causes : ClientReturn(op, cause)
  \/ WaitIter

SpecClient == InitClient /\ [][NextClient]_vars

\* One ThreadStorage constructed against a missing, a corrupt or a
\* parseable user-threads.json, then mutated; any write may fail.
StoredMappings ==
  { EmptyMap, MapSet(EmptyMap, "U1", "t1"),
    MapSet(MapSet(EmptyMap, "U1", "t1"), "U2", "t2") }
InitialFiles ==
  { [state |-> "missing", json |-> {}], [state |-> "corrupt", json |-> {}] }
    \cup { FileOf(m) : m \in StoredMappings }

InitStore ==
  /\ WebInit /\ InjInit /\ WaitIdle /\ ReplyIdle
  /\ ClientIdle /\ VerifyIdle /\ UploadIdle /\ ChainIdle
  /\ file \in InitialFiles
  /\ data = EmptyMap
  /\ nextThread = 1
  /\ sState = "unbuilt"
  /\ sBase = EmptyMap
  /\ sHist = << >>

NextStore ==
  \E w \in BOOLEAN :
    \/ StoreConstruct(w)
    \/ \E u \in Users, t \in { "t1", "t2" } : StoreSet(u, t, w)
    \/ \E u \in Users : StoreDelete(u, w)
    \/ StoreClear(w)

SpecStore == InitStore /\ [][NextStore]_vars

\* The same ThreadStorage when every write of the file succeeds.
NextPersist ==
  \/ StoreConstruct(TRUE)
  \/ \E u \in Users, t \in { "t1", "t2" } : StoreSet(u, t, TRUE)
  \/ \E u \in Users : StoreDelete(u, TRUE)
  \/ StoreClear(TRUE)

SpecPersist == InitStore /\ [][NextPersist]_vars

\* The verifier on every combination of body, signature, timestamp and
\* secret: a second body differing in one byte, a second secret, missing
\* values, and every signature computable from them.
AltBody == "rbw"
VerifyBodies == { Undefined, RawBody, AltBody }
VerifySecrets == { Undefined, SigningSecret, "wrong" }
VerifySignatures ==
  { NoSignature, ShortSignature }
    \cup { ExpectedSignature(b, t, k) :
             b \in { RawBody, AltBody }, t \in TsStrings,
             k \in { SigningSecret, "wrong" } }

InitVerify ==
  /\ WebInit /\ StoreInit /\ InjInit /\ WaitIdle /\ ReplyIdle
  /\ ClientIdle /\ UnitStoreIdle /\ UploadIdle /\ ChainIdle
  /\ \E b \in VerifyBodies, sig \in VerifySignatures, t \in TsStrings,
        k \in VerifySecrets : vIn = VerifyArgs(b, sig, t, k)
  /\ vOut = "pending"
  /\ vFresh = "pending"

NextVerify == VerifyCall \/ FreshCall

SpecVerify == InitVerify /\ [][NextVerify]_vars


\* One webhook request next to manual injections in a process started
\* over a thread file that already holds a mapping for one of the users.
StartFile == FileOf(MapSet(EmptyMap, "U1", "t0"))

InitLookup ==
  /\ WebInit /\ InjInit /\ WaitIdle /\ ReplyIdle /\ UnitIdle
  /\ data = LoadFromFile(StartFile)
  /\ file = FileAfterLoad(StartFile)
  /\ nextThread = 1

SpecLookup == InitLookup /\ [][NextInj]_vars


\* One webhook request whose run reports the statuses of a script, one per
\* status fetch; every sleep ends and every fetch settles.
InitTurnWait ==
  /\ WebInit /\ StoreInit /\ InjInit /\ ReplyIdle /\ UnitIdle
  /\ wSeq \in StatusScripts
  /\ wFetched = 0
  /\ wOut = "idle"
  /\ wErr = ""

NextTurnWait ==
  \/ \E in \in TurnInputs({ "U1" }) : Receive(1, in)
  \/ TurnOther(1)
  \/ PollOfRun(1)
  \/ \E ok \in BOOLEAN : GetReplyReturn(1, ok)

SpecTurnWait ==
  InitTurnWait /\ [][NextTurnWait]_vars /\ WF_vars(PollOfRun(1))

\* One direct-message turn whose reply fetch is answered by the backend
\* with a failure or with any message list.
NextTurnReply ==
  \/ \E in \in TurnInputs({ "U1" }) : Receive(1, in)
  \/ TurnCalls(1)
  \/ GetReplyOfThread(1, "throw", << >>)
  \/ /\ pc[1] = "getReply"
     /\ \E n \in 1..MaxMsgs :
          \E role \in [1..n -> { "user", "assistant" }],
             kind \in [1..n -> ContentKinds], at \in CreationTimes(n) :
            GetReplyOfThread(1, "ok",
                             [k \in 1..n |-> Message(role[k], at[k], kind[k])])

SpecTurnReply == Init /\ [][NextTurnReply]_vars

\* ----------------------------------------------- turns sharing one thread
\* createRun settles. The backend starts the run, and refuses a run on a
\* thread that still has an active one.
CreateRunOfThread(r, ok) ==
  /\ ok => \A q \in Reqs : run[q].state # "active"
  /\ CreateRunStep(r, ok)
  /\ run' = IF ok THEN [run EXCEPT ![r] = Run("active", 0)] ELSE run
  /\ UNCHANGED assistantResponse

\* The backend ends a run: completed, with its assistant message put at
\* the head of the thread's list (the list is served newest first), or
\* failed. mList is the list getThreadMessages is served; the user's own
\* messages are left out of it, find(role === 'assistant') skips them.
RunSettles(r, completed) ==
  /\ run[r].state = "active"
  /\ IF completed
       THEN LET at == Len(mList) + 1
            IN  /\ mList' = << Message("assistant", at, "text") >> \o mList
                /\ run' = [run EXCEPT ![r] = Run("completed", at)]
       ELSE /\ mList' = mList
            /\ run' = [run EXCEPT ![r] = Run("failed", 0)]
  /\ UNCHANGED << mOut, mFetch, assistantResponse >>
  /\ UNCHANGED << webVars, storeVars, injVars, waitVars, unitVars >>

\* One iteration of the poll loop on the status the run has.
PollOfThread(r) ==
  \E st \in PollResults :
    /\ st # "throw" =>
         st = CASE run[r].state = "completed" -> "completed"
                [] run[r].state = "failed"    -> "failed"
                [] OTHER                      -> "queued"
    /\ PollReturn(r, st)

\* getLatestAssistantMessage on the thread as it is when the fetch is served.
GetReplyOfSharedThread(r) ==
  \/ GetReplyOfThread(r, "throw", << >>)
  \/ GetReplyOfThread(r, "ok", mList)

\* Concurrent direct messages of one user who has a thread: every turn
\* appends to, runs on and reads from that one thread.
NextThread ==
  \/ \E r \in Reqs :
       \/ \E in \in TurnInputs({ "U1" }) : Receive(r, in)
       \/ \E ts \in TypingResults : TypingReturn(r, ts)
       \/ \E ok \in BOOLEAN : AddMessageReturn(r, ok)
       \/ \E ok \in BOOLEAN : CreateRunOfThread(r, ok)
       \/ \E completed \in BOOLEAN : RunSettles(r, completed)
       \/ PollOfThread(r)
       \/ GetReplyOfSharedThread(r)
       \/ \E deleted \in BOOLEAN : DeleteReturn(r, deleted)
       \/ \E success \in BOOLEAN : SendReturn(r, success)

SpecThread == InitLookup /\ [][NextThread]_vars


\* ================================================================ claims
Handled(r) == pc[r] # "idle"
Missing(in) ==
  in.signature.len = 0 \/ ~Truthy(in.timestamp) \/ ~Truthy(in.signingSecret)
Stale(in) == ~validateTimestamp(in.timestamp)
Forged(in) ==
  ~verifySlackSignature(in.rawBody, in.signature, in.timestamp,
                        in.signingSecret)
PassedChecks(in) == ~Missing(in) /\ ~Stale(in) /\ ~Forged(in)

\* A non-hidden, user-authored message on a DM-marked channel.
IsDmMessage(b) ==
  /\ b.hasEvent
  /\ b.event.type = "message"
  /\ Truthy(b.event.user)
  /\ ~b.event.hidden
  /\ b.event.channel # Undefined
  /\ FirstChar(b.event.channel) = "D"

\* C1: a webhook request is rejected at its first failing check, in the
\* order missing header/secret (400), stale timestamp (400), signature
\* mismatch (401), with no collaborator call; classification responses and
\* collaborator calls occur only for requests that passed all three.
C1_FirstFailingCheck ==
  \A r \in Reqs : Handled(r) =>
    LET in == req[r]
        rejected == pc[r] = "done" /\ calls[r] = << >>
    IN  /\ Missing(in) => resp[r] = << MissingHeaders400 >> /\ rejected
        /\ ~Missing(in) /\ Stale(in) => resp[r] = << TooOld400 >> /\ rejected
        /\ ~Missing(in) /\ ~Stale(in) /\ Forged(in) =>
             resp[r] = << BadSignature401 >> /\ rejected
        /\ calls[r] # << >> => PassedChecks(in)
        /\ (\E k \in 1..Len(resp[r]) :
              resp[r][k] \notin { MissingHeaders400, TooOld400, BadSignature401 })
             => PassedChecks(in)

\* C1 witness: a request both stale and forged was answered 400 "too old".
C1_Witness ==
  \E r \in Reqs :
    /\ Handled(r) /\ ~Missing(req[r]) /\ Stale(req[r]) /\ Forged(req[r])
    /\ resp[r] = << TooOld400 >>

DetachedPcs ==
  { "createThread", "addMessage", "createRun", "poll", "getReply", "delete",
    "sendReply", "apology" }

\* C2: for an accepted direct message the 200 {ok:true} is sent when the
\* typing-indicator call returns (not before) and is already sent in every
\* state of the detached turn, whichever backend call is still pending.
C2_AckBeforeTurn ==
  \A r \in Reqs :
    /\ pc[r] = "typing" => resp[r] = << >>
    /\ pc[r] \in DetachedPcs => resp[r] = << Ok200 >>
    /\ pc[r] = "done" /\ calls[r] # << >> => resp[r] = << Ok200 >>

\* C2 witness: the response is out while the run is still being polled
\* after MaxPolls non-terminal statuses, with and without a thinking message.
C2_Witness ==
  \E r \in Reqs :
    /\ pc[r] = "poll" /\ polls[r] = MaxPolls
    /\ messageTs[r] = Undefined
    /\ resp[r] = << Ok200 >>

\* C3: a failure caught in the detached turn leads to the apology being
\* sent to the user and to nothing else: that request's response stays the
\* single 200 {ok:true}, and every request has at most one response, never
\* a 500.
C3_TurnFailureContained ==
  \A r \in Reqs :
    /\ caught[r] # "" =>
         /\ pc[r] \in { "apology", "done" }
         /\ calls[r][Len(calls[r])] =
              Call("sendMessage:apology", req[r].body.event.user)
         /\ resp[r] = << Ok200 >>
    /\ Len(resp[r]) <= 1
    /\ \A k \in 1..Len(resp[r]) : resp[r][k].status # 500

\* C3 witness: one turn failed in the poll loop and ended, another one
\* succeeded, both acknowledged with 200.
C3_Witness ==
  \E r, q \in Reqs :
    /\ r # q
    /\ caught[r] = "waitForRunCompletion" /\ pc[r] = "done"
    /\ caught[q] = "" /\ pc[q] = "done"
    /\ "sendMessage:reply" \in Ops(calls[q])
    /\ resp[r] = << Ok200 >> /\ resp[q] = << Ok200 >>

\* C4 (as claimed): once a thread id is stored for a user, the stored id is
\* never replaced by a different one and the user keeps a mapping.
C4_OneThreadPerUser ==
  [][\A u \in DOMAIN data : u \in DOMAIN data' /\ data'[u] = data[u]]_vars

\* C5 (as claimed): both handlers work on one store, so every mapping in
\* the file is returned by the dispatcher's get, a store a handler holds
\* agrees with the dispatcher's, and no write of the file drops a user.
C5_SharedStore ==
  /\ [](/\ \A p \in file.json : MapGet(data, p[1]) = p[2]
        /\ \A i \in Injs : ipc[i] \in { "createThread", "append" } =>
             \A u \in DOMAIN data : MapGet(idata[i], u) = data[u])
  /\ [][\A p \in file.json : \E q \in file'.json : q[1] = p[1]]_vars

\* C6 (as claimed): a verified event_callback that is no direct message
\* (also one without channel, user or event) and a verified payload of an
\* unrecognized type are answered 200 {ok:true} with no collaborator call.
C6_NonDmIsNoOp ==
  \A r \in Reqs :
    ( /\ Handled(r) /\ PassedChecks(req[r]) /\ ~req[r].body.isNull
      /\ \/ req[r].body.type = "event_callback" /\ ~IsDmMessage(req[r].body)
         \/ req[r].body.type \notin { "event_callback", "url_verification" } )
    => resp[r] = << Ok200 >> /\ calls[r] = << >> /\ pc[r] = "done"

\* C7: a verified direct message whose app_id equals the configured bot
\* application id is answered 200 {ok:true} with no collaborator call.
C7_SelfLoopGuard ==
  \A r \in Reqs :
    ( /\ Handled(r) /\ PassedChecks(req[r]) /\ ~req[r].body.isNull
      /\ req[r].body.type = "event_callback" /\ IsDmMessage(req[r].body)
      /\ req[r].body.event.app_id = req[r].botAppId )
    => resp[r] = << Ok200 >> /\ calls[r] = << >> /\ pc[r] = "done"

\* C7 witness: such a self-authored message was acknowledged.
C7_Witness ==
  \E r \in Reqs :
    /\ Handled(r) /\ PassedChecks(req[r])
    /\ req[r].body.type = "event_callback" /\ IsDmMessage(req[r].body)
    /\ req[r].body.event.app_id = SelfAppId /\ req[r].botAppId = SelfAppId
    /\ resp[r] = << Ok200 >>

\* C8: a verified url_verification payload is answered 200 with the
\* challenge echoed, or 400 (always so when the challenge is absent), and
\* nothing else happens, also when the payload carries an event.
C8_HandshakeTerminal ==
  \A r \in Reqs :
    ( /\ Handled(r) /\ PassedChecks(req[r]) /\ ~req[r].body.isNull
      /\ req[r].body.type = "url_verification" )
    => /\ pc[r] = "done" /\ calls[r] = << >>
       /\ \/ resp[r] = << Response(200, "challenge", req[r].body.challenge) >>
          \/ resp[r] = << InvalidChallenge400 >>
       /\ req[r].body.challenge = Undefined => resp[r] = << InvalidChallenge400 >>
       /\ Truthy(req[r].body.challenge) => resp[r][1].status = 200

\* C8 witness: a handshake that also carries a direct-message event was
\* answered with its challenge.
C8_Witness ==
  \E r \in Reqs :
    /\ Handled(r) /\ PassedChecks(req[r])
    /\ req[r].body.type = "url_verification" /\ IsDmMessage(req[r].body)
    /\ req[r].body.event.app_id = OtherAppId
    /\ resp[r] = << Response(200, "challenge", "abc123") >>

TerminalStatuses == { "completed", "failed", "cancelled", "expired" }
FirstTerminal(seq) ==
  LET hits == { k \in 1..Len(seq) : seq[k] \in TerminalStatuses }
  IN  IF hits = {} THEN 0 ELSE CHOOSE k \in hits : \A j \in hits : k <= j

\* C9: waitForRunCompletion stops at the first status among completed,
\* failed, cancelled, expired: it has then fetched exactly that many
\* statuses, returns on completed and otherwise raises naming the status;
\* before that position it keeps running.
C9_StopsAtFirstTerminal ==
  LET k == FirstTerminal(wSeq)
  IN  /\ wOut \in { "running", "returned", "raised" }
      /\ k = 0 => wOut = "running"
      /\ k # 0 => /\ wFetched <= k
                  /\ wOut # "running" <=> wFetched = k
      /\ wOut = "returned" => wSeq[k] = "completed"
      /\ wOut = "raised" => wSeq[k] # "completed" /\ wErr = wSeq[k]

\* C9 witness: [queued, in_progress, completed] returned after 3 fetches.
C9_Witness ==
  /\ wSeq = << "queued", "in_progress", "completed" >>
  /\ wFetched = 3
  /\ wOut = "returned"

\* The most recent assistant-authored message of a list, 0 when none.
LatestAssistant(list) ==
  LET as == { k \in 1..Len(list) : list[k].role = "assistant" }
  IN  IF as = {} THEN 0
      ELSE CHOOSE k \in as : \A j \in as : list[j].created_at <= list[k].created_at
HasText(msg) == \E b \in 1..Len(msg.content) : msg.content[b].type = "text"
FirstText(msg) ==
  msg.content[CHOOSE b \in 1..Len(msg.content) :
                /\ msg.content[b].type = "text"
                /\ \A c \in 1..(b - 1) : msg.content[c].type # "text"].text

\* C10 (as claimed): for every list holding an assistant message (whose
\* most recent one has a text block), in any order, the result is the first
\* text block of the most recent assistant message.
C10_LatestAssistantText ==
  ( /\ mOut.out \notin { "idle", "pending" }
    /\ LatestAssistant(mList) # 0
    /\ HasText(mList[LatestAssistant(mList)]) )
  => mOut = Outcome("returned", FirstText(mList[LatestAssistant(mList)]))

\* C11: getLatestAssistantMessage raises (never returns a value) when the
\* fetch of the messages fails, when the list holds no assistant-authored
\* message, and when the assistant message it selects has no text block;
\* the turn then ends on the apology path: the failure is caught, the
\* apology is the last call, and no reply is sent.
C11_NoReplyRaises ==
  \A r \in Reqs :
    "getLatestAssistantMessage" \in Ops(calls[r]) /\ pc[r] # "getReply" =>
      LET a == FirstAssistant(mList)
          failing == \/ mFetch = "throw"
                     \/ \A k \in 1..Len(mList) : mList[k].role # "assistant"
                     \/ a # 0 /\ ~HasText(mList[a])
      IN  failing =>
            /\ mOut = Outcome("raised", NoText)
            /\ caught[r] = "getLatestAssistantMessage"
            /\ pc[r] \in { "apology", "done" }
            /\ calls[r][Len(calls[r])] =
                 Call("sendMessage:apology", req[r].body.event.user)
            /\ "sendMessage:reply" \notin Ops(calls[r])

\* C11 witness: the selected assistant message held only an image, the
\* call raised and the turn ended with the apology.
C11_Witness ==
  /\ mFetch = "ok" /\ Len(mList) = 2
  /\ mList[1].role = "assistant" /\ ~HasText(mList[1])
  /\ mList[2].role = "user"
  /\ mOut.out = "raised"
  /\ pc[1] = "done" /\ caught[1] = "getLatestAssistantMessage"
  /\ "sendMessage:apology" \in Ops(calls[1])

\* The first position of a script at which getRunStatus raises or reports
\* a terminal status, 0 when there is none.
FirstStop(seq) ==
  LET hits == { k \in 1..Len(seq) : seq[k] \in TerminalStatuses \cup { "throw" } }
  IN  IF hits = {} THEN 0 ELSE CHOOSE k \in hits : \A j \in hits : k <= j

\* C12: a client operation whose request fails raises its own error, which
\* differs from every other operation's and is never the transport error;
\* and when getRunStatus raises inside waitForRunCompletion the loop ends
\* at that fetch, raising the error of getRunStatus, with no further fetch.
C12_OperationErrors ==
  /\ cOut.out # "pending" =>
       /\ cCause = "ok" <=> cOut.out = "returned"
       /\ cCause # "ok" =>
            /\ cOut.out = "raised"
            /\ cOut.err \notin Causes
            /\ \A op \in ClientOps \ { cOp } :
                 ClientCall(op, cCause).err # cOut.err
  /\ LET k == FirstStop(wSeq)
     IN  k # 0 /\ wSeq[k] = "throw" =>
           /\ wFetched <= k
           /\ wFetched = k =>
                /\ wOut = "raised"
                /\ wErr = ClientCall("getRunStatus", "ECONNRESET").err
                /\ wErr \notin Causes \cup Statuses \cup { "throw" }

\* C12 witness: createRun failed on an HTTP 500 and raised its own error,
\* and a poll loop ended at its second fetch, which raised.
C12_Witness ==
  /\ cOp = "createRun" /\ cCause = "status500"
  /\ cOut = ClientOutcome("raised", "Failed to create OpenAI run")
  /\ wSeq = << "queued", "throw", "completed" >>
  /\ wFetched = 2 /\ wOut = "raised" /\ wErr = "Failed to get run status"

\* What the history of a store says about user u: the thread of the last
\* set(u, t) when no delete(u) or clear follows it, absent after a
\* delete(u) or clear, and otherwise what the store came up with.
LastTouch(h, u) ==
  LET hits == { k \in 1..Len(h) : h[k].op = "clear" \/ h[k].user = u }
  IN  IF hits = {} THEN 0 ELSE CHOOSE k \in hits : \A j \in hits : j <= k
Expected(u) ==
  LET k == LastTouch(sHist, u)
  IN  IF k = 0 THEN MapGet(sBase, u)
      ELSE IF sHist[k].op = "set" THEN sHist[k].thread
      ELSE NoThread

\* C13: after any sequence of set, delete and clear on one store, get(u) is
\* the thread of the last set(u, t) not followed by delete(u) or clear and
\* absent otherwise (a store that came up empty); has agrees with get, size
\* counts the mapped users and getAll is exactly that mapping.
C13_MapSemantics ==
  sState = "built" =>
    /\ \A u \in Users :
         /\ StoreGet(data, u) = Expected(u)
         /\ StoreHas(data, u) <=> Expected(u) # NoThread
    /\ StoreSize(data) = Cardinality({ u \in Users : Expected(u) # NoThread })
    /\ StoreGetAll(data) =
         { <<u, Expected(u)>> : u \in { x \in Users : Expected(x) # NoThread } }

\* C13 witness: set(U1, t1), set(U1, t2), delete(U1) on a store that came
\* up empty left U1 absent and size 0.
C13_Witness ==
  /\ sState = "built" /\ sBase = EmptyMap
  /\ sHist = << StoreOp("set", "U1", "t1"), StoreOp("set", "U1", "t2"),
               StoreOp("delete", "U1", NoThread) >>
  /\ StoreGet(data, "U1") = NoThread /\ StoreSize(data) = 0

\* C14 (as claimed): whenever set, delete or clear has returned, the file
\* holds exactly the in-memory mapping, also when the write failed.
C14_PersistedWholesale ==
  sState = "built" /\ sHist # << >> => file = FileOf(data)

\* C15 (as claimed): constructing a store against a corrupt file gives
\* size 0 and leaves the empty mapping in the file; against a missing file
\* it leaves an empty file; against a parseable file the store holds
\* exactly the file's mapping; the constructor always returns.
C15_ConstructSelfHeals ==
  [][sState = "unbuilt" /\ sState' # "unbuilt" =>
       /\ sState' = "built"
       /\ file.state = "corrupt" =>
            StoreSize(data') = 0 /\ file' = FileOf(EmptyMap)
       /\ file.state = "missing" => file' = FileOf(EmptyMap)
       /\ file.state = "ok" =>
            StoreGetAll(data') = file.json /\ file' = file]_vars

\* C16 (as claimed): for every timestamp that does not parse as a number,
\* verifySlackSignature returns false, also when the presented signature
\* is the keyed hash over that same timestamp string and the body.
C16_FailsClosed ==
  vOut # "pending" /\ IsNaN(vIn.timestamp) => vOut = "false"

\* C17: verifySlackSignature never raises: its outcome is true or false,
\* and false whenever the signature's length differs from the expected
\* one's, the hash cannot be computed (no key) or the body is missing.
C17_NeverRaises ==
  /\ vOut \in { "pending", "true", "false" }
  /\ ( /\ vOut # "pending"
       /\ \/ vIn.signature.len # HexSigLen
          \/ vIn.secret = Undefined
          \/ vIn.body = Undefined )
     => vOut = "false"

\* C17 witness: a fresh request with a 5-character signature got false.
C17_Witness ==
  /\ vIn = VerifyArgs(RawBody, ShortSignature, "1000", SigningSecret)
  /\ vOut = "false"

IntegerTs == { "699", "700", "701", "1000", "1299", "1300", "1301" }

\* C18 (as claimed): for every integer timestamp t, validateTimestamp is
\* true exactly when |now - t| <= 300, the two ends included.
C18_InclusiveWindow ==
  vFresh # "pending" /\ vIn.timestamp \in IntegerTs =>
    (vFresh = "true" <=> Abs(NowSec - ParseInt(vIn.timestamp)) <= 300)

\* The timestamp is a time not more than 5 minutes in the past.
NotOlder(ts) == ~IsNaN(ts) /\ ParseInt(ts) >= NowSec - 300

\* C19 (as claimed): verifySlackSignature returns true exactly when the
\* timestamp is not older than 5 minutes and the signature is the keyed
\* hash of timestamp and body under the secret; a passing request fails
\* once its body, timestamp or secret is changed under the same signature.
C19_VerifyExactly ==
  vOut # "pending" =>
    /\ vOut = "true" <=>
         /\ NotOlder(vIn.timestamp)
         /\ vIn.body # Undefined /\ vIn.secret # Undefined
         /\ vIn.signature =
              ExpectedSignature(vIn.body, vIn.timestamp, vIn.secret)
    /\ vOut = "true" =>
         /\ \A b \in VerifyBodies \ { vIn.body } :
              VerifyOutcome(b, vIn.signature, vIn.timestamp, vIn.secret) = "false"
         /\ \A t \in TsStrings \ { vIn.timestamp } :
              VerifyOutcome(vIn.body, vIn.signature, t, vIn.secret) = "false"
         /\ \A k \in VerifySecrets \ { vIn.secret } :
              VerifyOutcome(vIn.body, vIn.signature, vIn.timestamp, k) = "false"

\* Calls on the Thread Store and on the Conversation Client.
StoreAndClientOps == { "get", "set", "createThread", "addMessageToThread" }

\* The documented failure exits of handleSendMessage.
DocumentedExits ==
  { InjFail(400, "Username is required as a query parameter"),
    InjFail(400, "Message is required in the request body as plain text"),
    InjFail(404, "User not found"),
    InjFail(500, "Failed to open direct message channel with user"),
    InjFail(500, "Failed to send message to user") }

\* C20: handleSendMessage stops at its first failing step: a missing
\* username or an empty or blank message is answered 400 with no call; a
\* null user lookup 404, a null channel 500, an undelivered message 500,
\* each ending the handler with no further call; and at each of these
\* exits no Thread Store or Conversation Client call was made, the handler
\* holds no store and the file is left as it was.
C20_FirstFailingStep ==
  /\ [](\A i \in Injs :
         /\ ( /\ ipc[i] # "idle"
              /\ \/ ~Truthy(ireq[i].username)
                 \/ ~Truthy(ireq[i].message)
                 \/ Trim(ireq[i].message) = "" )
            => /\ ipc[i] = "done" /\ icalls[i] = << >>
               /\ Len(iresp[i]) = 1 /\ iresp[i][1].status = 400
         /\ (\E k \in 1..Len(iresp[i]) : iresp[i][k] \in DocumentedExits)
            => /\ ipc[i] = "done" /\ Len(iresp[i]) = 1
               /\ Ops(icalls[i]) \cap StoreAndClientOps = {}
               /\ idata[i] = EmptyMap /\ ithread[i] = NoThread)
  /\ [][\A i \in Injs :
         /\ InjLookupReturn(i, Undefined) =>
              /\ iresp'[i] = << InjFail(404, "User not found") >>
              /\ ipc'[i] = "done" /\ icalls'[i] = icalls[i]
         /\ InjOpenReturn(i, Undefined) =>
              /\ iresp'[i] =
                   << InjFail(500, "Failed to open direct message channel with user") >>
              /\ ipc'[i] = "done" /\ icalls'[i] = icalls[i]
         /\ InjSendReturn(i, FALSE) =>
              /\ iresp'[i] = << InjFail(500, "Failed to send message to user") >>
              /\ ipc'[i] = "done" /\ icalls'[i] = icalls[i]
              /\ file' = file /\ data' = data
         /\ ipc[i] = "done" =>
              icalls'[i] = icalls[i] /\ iresp'[i] = iresp[i]]_vars

\* C20 witness: the blocks were not delivered: 500, and the last call is
\* sendBlocks.
C20_Witness ==
  \E i \in Injs :
    /\ ipc[i] = "done"
    /\ iresp[i] = << InjFail(500, "Failed to send message to user") >>
    /\ icalls[i][Len(icalls[i])].op = "sendBlocks"
    /\ Ops(icalls[i]) \cap StoreAndClientOps = {}

\* ------------------------------------------------------------------------
\* Operations of the assistant client that solicit or read an AI turn.
AiTurnOps ==
  { "createRun", "getRunStatus", "waitForRunCompletion",
    "getLatestAssistantMessage" }

\* The position of the first call of the given operation in a log, 0 if none
FirstCall(log, op) ==
  IF \E k \in 1..Len(log) : log[k].op = op
    THEN CHOOSE k \in 1..Len(log) :
           log[k].op = op /\ \A j \in 1..(k - 1) : log[j].op # op
    ELSE 0

InjInternal500 == InjFail(500, "Internal server error")

\* C22: when an awaited step of the manual-injection sequence raises (the
\* image rendering, createThread, addMessageToThread), the handler answers
\* 500 {success:false, error:'Internal server error'}, makes no further
\* call, and that is the only response of the request.
C22_CaughtAtTopLevel ==
  /\ [] ( \A i \in Injs :
            /\ Len(iresp[i]) <= 1
            /\ ipc[i] = "done" <=> Len(iresp[i]) = 1
            /\ \A k \in 1..Len(iresp[i]) :
                 iresp[i][k].error = "Internal server error"
                   => iresp[i][k] = InjInternal500 )
  /\ [][ \A i \in Injs :
           ( \/ InjImageReturn(i, FALSE)
             \/ InjCreateThreadReturn(i, FALSE)
             \/ InjAppendReturn(i, FALSE) )
           => /\ iresp'[i] = << InjInternal500 >>
              /\ ipc'[i] = "done"
              /\ icalls'[i] = icalls[i] ]_vars

\* C22 witness: createThread rejected and the request was answered with the
\* generic 500.
C22_Witness ==
  \E i \in Injs :
    /\ iresp[i] = << InjInternal500 >>
    /\ icalls[i][Len(icalls[i])].op = "createThread"

\* A parsed body on which the classification code dereferences a missing
\* value: a null body, an event_callback without event, a user message
\* event without channel.
ClassificationFails(b) ==
  \/ b.isNull
  \/ /\ b.type = "event_callback"
     /\ \/ ~b.hasEvent
        \/ /\ b.event.type = "message" /\ Truthy(b.event.user)
           /\ ~b.event.hidden /\ b.event.channel = Undefined

\* C23: a webhook response of status 500 is exactly {error:'Internal
\* server error'}, is the only response of its request, and is given
\* exactly to the verified requests whose classification raised, before any
\* collaborator call; once a direct message was accepted its only response
\* is the 200 acknowledgement, also after a failure of the turn.
C23_OnlyClassification500 ==
  \A r \in Reqs : Handled(r) =>
    /\ (\E k \in 1..Len(resp[r]) : resp[r][k].status = 500) =>
         /\ resp[r] = << Err(500, "Internal server error") >>
         /\ PassedChecks(req[r]) /\ ClassificationFails(req[r].body)
         /\ calls[r] = << >> /\ pc[r] = "done"
    /\ PassedChecks(req[r]) /\ ClassificationFails(req[r].body) =>
         resp[r] = << Err(500, "Internal server error") >>
    /\ calls[r] # << >> => resp[r] \in { << >>, << Ok200 >> }
    /\ pc[r] \notin { "idle", "typing" } /\ calls[r] # << >> =>
         resp[r] = << Ok200 >>
    /\ caught[r] # "" => resp[r] = << Ok200 >>

\* C23 witness: a verified null body was answered 500.
C23_Witness ==
  \E r \in Reqs :
    /\ Handled(r) /\ PassedChecks(req[r]) /\ req[r].body.isNull
    /\ resp[r] = << Internal500 >>

\* The calls of a successful turn of a user without mapping, in order.
NewUserOrder ==
  << "sendTypingIndicator", "get", "createThread", "set",
     "addMessageToThread", "createRun", "waitForRunCompletion",
     "getLatestAssistantMessage", "deleteMessage", "sendMessage:reply" >>

\* The operations of a call log, in order
OpSeq(log) == [k \in 1..Len(log) |-> log[k].op]

IsPrefix(s, t) == Len(s) <= Len(t) /\ \A k \in 1..Len(s) : s[k] = t[k]

\* A sequence without its occurrences of x
Without(s, x) == SelectSeq(s, LAMBDA e : e # x)

\* The position of the turn while the given asynchronous call is pending
PendingAt(op) ==
  CASE op = "sendTypingIndicator"       -> "typing"
    [] op = "createThread"              -> "createThread"
    [] op = "addMessageToThread"        -> "addMessage"
    [] op = "createRun"                 -> "createRun"
    [] op = "waitForRunCompletion"      -> "poll"
    [] op = "getLatestAssistantMessage" -> "getReply"
    [] op = "deleteMessage"             -> "delete"
    [] op = "sendMessage:reply"         -> "sendReply"
    [] op = "sendMessage:apology"       -> "apology"
    [] OTHER                            -> "none"

\* C24: the calls of a turn that created a thread are a prefix of typing
\* indicator, get, createThread, set, addMessageToThread, createRun,
\* waitForRunCompletion, getLatestAssistantMessage, deleteMessage (when a
\* thinking message was posted), reply send, possibly cut short by the
\* apology; the last call is the only one that can be pending; createRun
\* directly follows the addMessageToThread call on the same thread.
C24_NewUserCallOrder ==
  \A r \in Reqs : "createThread" \in Ops(calls[r]) =>
    LET ops == OpSeq(calls[r])
        n == Len(ops)
        main == IF ops[n] = "sendMessage:apology" THEN SubSeq(ops, 1, n - 1)
                ELSE ops
        order == IF Truthy(messageTs[r]) THEN NewUserOrder
                 ELSE Without(NewUserOrder, "deleteMessage")
    IN  /\ IsPrefix(main, order)
        /\ pc[r] \in { PendingAt(ops[n]), "done" }
        /\ pc[r] = "done" => ops[n] \in { "sendMessage:reply", "sendMessage:apology" }
        /\ \A k \in 1..n : ops[k] = "createRun" =>
             /\ k > 1 /\ ops[k - 1] = "addMessageToThread"
             /\ calls[r][k].arg = calls[r][k - 1].arg
             /\ calls[r][k].arg = threadId[r]

\* C24 witness: a turn of a new user went through all ten calls.
C24_Witness ==
  \E r \in Reqs : pc[r] = "done" /\ OpSeq(calls[r]) = NewUserOrder

\* The number of calls of an operation in a log
CountCalls(log, op) == Cardinality({ k \in 1..Len(log) : log[k].op = op })

\* C25: in the dispatcher and in the manual-injection handler, a get that
\* finds a thread id is followed directly by addMessageToThread on that id,
\* with no createThread and no set; a get that finds none is followed by
\* one createThread, and when that resolves the new id is stored under the
\* user before addMessageToThread is called on it.
C25_LookupOrCreate ==
  /\ [] ( /\ \A r \in Reqs :
               /\ CountCalls(calls[r], "createThread") <= 1
               /\ CountCalls(calls[r], "set") <= CountCalls(calls[r], "createThread")
          /\ \A i \in Injs :
               /\ CountCalls(icalls[i], "createThread") <= 1
               /\ CountCalls(icalls[i], "set") <= CountCalls(icalls[i], "createThread") )
  /\ [][ /\ \A r \in Reqs :
             LET u == req[r].body.event.user
                 t == MapGet(data, u)
                 new == MapGet(data', u)
             IN  /\ pc[r] = "typing" /\ pc'[r] # "typing" =>
                      IF t # NoThread
                        THEN /\ calls'[r] = calls[r] \o
                                  << Call("get", u), Call("addMessageToThread", t) >>
                             /\ data' = data
                        ELSE /\ calls'[r] = calls[r] \o
                                  << Call("get", u), Call("createThread", u) >>
                             /\ data' = data
                 /\ pc[r] = "createThread" /\ pc'[r] = "addMessage" =>
                      /\ new # NoThread /\ new \notin { data[x] : x \in DOMAIN data }
                      /\ calls'[r] = calls[r] \o
                           << Call("set", u), Call("addMessageToThread", new) >>
         /\ \A i \in Injs :
             LET u == iuser[i]
                 t == MapGet(InjStorage(file), u)
                 new == MapGet(idata'[i], u)
                 content == InjPrompt(ireq[i].message)
             IN  /\ ipc[i] = "send" /\ ipc'[i] \in { "createThread", "append" } =>
                      IF t # NoThread
                        THEN icalls'[i] = icalls[i] \o
                               << Call("get", u),
                                  Call("addMessageToThread", AppendArgs(t, content)) >>
                        ELSE icalls'[i] = icalls[i] \o
                               << Call("get", u), Call("createThread", u) >>
                 /\ ipc[i] = "createThread" /\ ipc'[i] = "append" =>
                      /\ new # NoThread
                      /\ new \notin { idata[i][x] : x \in DOMAIN idata[i] }
                      /\ MapGet(FromJson(file'.json), u) = new
                      /\ icalls'[i] = icalls[i] \o
                           << Call("set", u),
                              Call("addMessageToThread", AppendArgs(new, content)) >> ]_vars

\* C25 witness: a dispatcher turn used the stored id without creating a
\* thread while an injection for another user created and stored one.
C25_Witness ==
  \E r \in Reqs, i \in Injs :
    /\ "addMessageToThread" \in Ops(calls[r])
    /\ "createThread" \notin Ops(calls[r])
    /\ threadId[r] = "t0"
    /\ Len(icalls[i]) >= 4
    /\ << "get", "createThread", "set", "addMessageToThread" >> =
         SubSeq(OpSeq(icalls[i]), Len(icalls[i]) - 3, Len(icalls[i]))

\* C26: deleteMessage is called only in a turn whose typing-indicator send
\* returned a timestamp, at most once, and then directly before the reply
\* send; a false result of deleteMessage or of the reply send changes
\* nothing: the reply is sent (once) all the same, no failure is caught and
\* no apology is sent.
C26_DeliveryStep ==
  /\ [] ( \A r \in Reqs :
            LET ops == OpSeq(calls[r])
                k == FirstCall(calls[r], "sendMessage:reply")
            IN  /\ "deleteMessage" \in Ops(calls[r]) => Truthy(messageTs[r])
                /\ CountCalls(calls[r], "deleteMessage") <= 1
                /\ CountCalls(calls[r], "sendMessage:reply") <= 1
                /\ k > 0 =>
                     /\ k = Len(ops) /\ caught[r] = ""
                     /\ "sendMessage:apology" \notin Ops(calls[r])
                     /\ ops[k - 1] = IF Truthy(messageTs[r]) THEN "deleteMessage"
                                     ELSE "getLatestAssistantMessage"
                /\ "deleteMessage" \in Ops(calls[r]) =>
                     "sendMessage:apology" \notin Ops(calls[r]) )
  /\ [][ \A r \in Reqs :
           /\ DeleteReturn(r, FALSE) =>
                /\ calls'[r] = Append(calls[r],
                                      Call("sendMessage:reply", req[r].body.event.user))
                /\ pc'[r] = "sendReply" /\ caught' = caught
           /\ pc[r] = "sendReply" /\ SendReturn(r, FALSE) =>
                pc'[r] = "done" /\ calls' = calls /\ caught' = caught ]_vars

\* C26 witness: a finished turn whose typing-indicator send returned null
\* replied without a delete call.
C26_Witness ==
  \E r \in Reqs :
    /\ pc[r] = "done" /\ ~Truthy(messageTs[r])
    /\ "sendMessage:reply" \in Ops(calls[r])
    /\ "deleteMessage" \notin Ops(calls[r])

\* C27: inside a turn whose status fetches succeed, the poll loop is left
\* exactly when a completed, failed, cancelled or expired status was
\* fetched, whatever the number of iterations; until then the turn is still
\* in waitForRunCompletion with one iteration per status fetched and has
\* sent neither reply nor apology; and when the run's statuses hold a
\* terminal one, the loop is eventually left.
C27_PollsUntilTerminal ==
  /\ [] ( "waitForRunCompletion" \in Ops(calls[1]) =>
            LET k == FirstTerminal(wSeq)
            IN  /\ pc[1] = "poll" <=> (k = 0 \/ wFetched < k)
                /\ pc[1] # "poll" => wFetched = k
                /\ pc[1] = "poll" =>
                     /\ polls[1] = wFetched /\ caught[1] = ""
                     /\ calls[1][Len(calls[1])].op = "waitForRunCompletion"
                     /\ Ops(calls[1]) \cap
                          { "getLatestAssistantMessage", "sendMessage:reply",
                            "sendMessage:apology" } = { } )
  /\ (pc[1] = "poll" /\ FirstTerminal(wSeq) # 0) ~> (pc[1] # "poll")

\* C27 witness: a run that reported only non-terminal statuses is still
\* polled after every status of the script.
C27_Witness ==
  /\ pc[1] = "poll"
  /\ FirstTerminal(wSeq) = 0
  /\ { wSeq[k] : k \in 1..Len(wSeq) } =
       { "queued", "in_progress", "requires_action" }
  /\ wFetched = Len(wSeq)
  /\ polls[1] = Len(wSeq)

C29_PollDoesNotBlock ==
  \A r, q \in Reqs : (r # q /\ pc[r] = "poll") =>
    /\ (pc[q] = "idle" /\ \A p \in Reqs : p < q => pc[p] # "idle") =>
         \A in \in TurnInputs({ "U1" }) : ENABLED Receive(q, in)
    /\ pc[q] = "typing" => \A ts \in TypingResults : ENABLED TypingReturn(q, ts)
    /\ pc[q] = "createThread" => ENABLED CreateThreadReturn(q, TRUE)
    /\ pc[q] = "addMessage" => ENABLED AddMessageReturn(q, TRUE)
    /\ pc[q] = "createRun" => ENABLED CreateRunReturn(q, TRUE)
    /\ pc[q] = "poll" => ENABLED PollReturn(q, "completed")
    /\ pc[q] = "getReply" => ENABLED GetReplyReturn(q, TRUE)
    /\ pc[q] = "delete" => ENABLED DeleteReturn(q, TRUE)
    /\ pc[q] \in { "sendReply", "apology" } => ENABLED SendReturn(q, TRUE)

\* C29 witness: one turn is still polling after the explored number of
\* iterations while another request was acknowledged and its turn has sent
\* its reply.
C29_Witness ==
  \E r, q \in Reqs :
    /\ pc[r] = "poll" /\ polls[r] = MaxPolls
    /\ pc[q] = "done" /\ resp[q] = << Ok200 >>
    /\ "sendMessage:reply" \in Ops(calls[q])

\* The positions of a turn between its addMessageToThread call and the
\* settling of its getLatestAssistantMessage call.
InFlightPcs == { "addMessage", "createRun", "poll", "getReply" }

\* C30: a turn never waits for another turn of the same user: while one
\* turn is in flight on a thread, a second turn that resolved the same
\* thread id can append its message, start its run, poll and fetch.
C30_NoMutualExclusion ==
  \A r, q \in Reqs :
    ( /\ r # q
      /\ pc[r] \in InFlightPcs /\ pc[q] \in InFlightPcs
      /\ req[r].body.event.user = req[q].body.event.user
      /\ threadId[r] = threadId[q] )
    => /\ pc[q] = "addMessage" => ENABLED AddMessageReturn(q, TRUE)
       /\ pc[q] = "createRun" => ENABLED CreateRunReturn(q, TRUE)
       /\ pc[q] = "poll" => ENABLED PollReturn(q, "completed")
       /\ pc[q] = "getReply" => ENABLED GetReplyReturn(q, TRUE)

\* C30 witness: two turns of the same user resolved the same thread id and
\* both have appended a message and started a run on it, neither having
\* fetched its reply.
C30_Witness ==
  \E r, q \in Reqs :
    /\ r # q
    /\ req[r].body.event.user = req[q].body.event.user
    /\ threadId[r] = threadId[q] /\ threadId[r] # NoThread
    /\ pc[r] = "poll" /\ pc[q] = "poll"
    /\ Call("createRun", threadId[r]) \in { calls[r][k] : k \in 1..Len(calls[r]) }
    /\ Call("createRun", threadId[q]) \in { calls[q][k] : k \in 1..Len(calls[q]) }

\* C31: waitForFileUpload ends after at most maxRetries verifications. It
\* returns true at the first verification that succeeds and makes no other;
\* it returns false after maxRetries verifications that all failed (a
\* rejected request and an error answer count as failed); every sleep lasts
\* retryDelay and is followed by another verification, so there is one
\* sleep fewer than verifications once the call has returned.
UploadDone == uPc \in { "true", "false" }
Failed(k) == uInfo[k] # "image"
C31_Inv ==
  /\ uTried <= uArgs.maxRetries
  /\ \A k \in 1..Len(uSleeps) : uSleeps[k] = uArgs.retryDelay
  /\ uPc = "sleep" => uTried < uArgs.maxRetries
  /\ uPc = "true" =>
       /\ uTried >= 1 /\ ~Failed(uTried)
       /\ \A k \in 1..(uTried - 1) : Failed(k)
       /\ Len(uSleeps) = uTried - 1
  /\ uPc = "false" =>
       /\ uTried = uArgs.maxRetries
       /\ \A k \in 1..uTried : Failed(k)
       /\ Len(uSleeps) = IF uTried = 0 THEN 0 ELSE uTried - 1
C31_BoundedUploadWait ==
  /\ []C31_Inv
  /\ [][UploadDone => UNCHANGED uploadVars]_vars
  /\ <>UploadDone
C31_Witness ==
  /\ uPc = "false" /\ uArgs.maxRetries = 3 /\ uTried = 3
  /\ Len(uSleeps) = 2 /\ uInfo[1] = "throw" /\ uInfo[2] = "apiError"

\* C32: every request that reached handleSlackEvents gets exactly one
\* response. None has been sent only while the handler still awaits
\* sendTypingIndicator; from the handler's return on there is exactly one,
\* on every path (a failed check, the handshake, a no-op event, a
\* self-authored message, an accepted direct message, an exception), and
\* it is never followed by a second one, also when the detached turn fails.
C32_ExactlyOneResponse ==
  /\ [](\A r \in Reqs :
          /\ Len(resp[r]) <= 1
          /\ pc[r] \in { "idle", "typing" } => resp[r] = << >>
          /\ pc[r] \notin { "idle", "typing" } => Len(resp[r]) = 1)
  /\ [][\A r \in Reqs : resp[r] # << >> => resp'[r] = resp[r]]_vars

\* C32 witness: the turn of an accepted direct message has failed at the
\* run's creation and ended, with the single 200 sent before it.
C32_Witness ==
  \E r \in Reqs :
    /\ pc[r] = "done" /\ caught[r] = "createRun"
    /\ resp[r] = << Ok200 >>

\* C33: the turn of an accepted direct message attempts at most one
\* user-facing send, and exactly one once it has ended: the reply when no
\* step up to the reply's fetch failed, the apology when one did; never
\* both and never neither.
UserSends(r) ==
  CountCalls(calls[r], "sendMessage:reply")
    + CountCalls(calls[r], "sendMessage:apology")
C33_OneUserFacingSend ==
  \A r \in Reqs :
    /\ UserSends(r) <= 1
    /\ CountCalls(calls[r], "sendMessage:reply") = 1 =>
         caught[r] = "" /\ "getLatestAssistantMessage" \in Ops(calls[r])
    /\ CountCalls(calls[r], "sendMessage:apology") = 1 <=> caught[r] # ""
    /\ pc[r] = "done" /\ calls[r] # << >> =>
         /\ UserSends(r) = 1
         /\ caught[r] = "" =>
              calls[r][Len(calls[r])].op = "sendMessage:reply"
         /\ caught[r] # "" =>
              calls[r][Len(calls[r])].op = "sendMessage:apology"

\* C33 witness: a turn ended with the reply after the thinking message's
\* deletion was attempted.
C33_Witness ==
  \E r \in Reqs :
    /\ pc[r] = "done" /\ caught[r] = ""
    /\ "deleteMessage" \in Ops(calls[r])
    /\ UserSends(r) = 1

\* C34: once the turn of a direct message has ended, with the reply or
\* with the apology, the deletion of the thinking message that was posted
\* for it has been called.
C34_CleanupUnconditional ==
  \A r \in Reqs :
    pc[r] = "done" /\ Truthy(messageTs[r]) =>
      "deleteMessage" \in Ops(calls[r])

\* C35: the channel passed to deleteMessage and to sendMessage (reply or
\* apology) is the event's channel, the one sendTypingIndicator was called
\* with, and deleteMessage is called only with the timestamp that call
\* returned.
ChannelCalls == { "deleteMessage", "sendMessage:reply", "sendMessage:apology" }
C35_SameChannel ==
  \A r \in Reqs :
    /\ \A k \in 1..Len(calls[r]) :
         calls[r][k].op \in ChannelCalls =>
           /\ calls[r][1].op = "sendTypingIndicator"
           /\ calls[r][k].arg = calls[r][1].arg
           /\ calls[r][k].arg = req[r].body.event.channel
    /\ "deleteMessage" \in Ops(calls[r]) => Truthy(messageTs[r])

\* C36: the text a turn got from getLatestAssistantMessage, which it sends
\* as the reply, is the text of the assistant message its own run
\* produced, and no two turns got the text of the same message.
C36_OwnRunsReply ==
  \A r \in Reqs :
    assistantResponse[r] # NoText =>
      /\ assistantResponse[r].msg = run[r].msg
      /\ \A q \in Reqs \ { r } :
           assistantResponse[q].msg # assistantResponse[r].msg

\* C37: a step of a turn that found a mapping for its user changes neither
\* the store's Map nor its file; no step of the dispatcher removes a
\* mapping or replaces its thread id; and a turn that has ended, failed
\* or not, leaves its user mapped to the thread it used, which is the
\* thread the user's next direct message gets.
FoundMapping(r) ==
  "get" \in Ops(calls[r]) /\ "createThread" \notin Ops(calls[r])
C37_TurnKeepsMapping ==
  [][\A r \in Reqs :
       FoundMapping(r) /\ << pc[r], calls[r] >> # << pc'[r], calls'[r] >> =>
         data' = data /\ file' = file]_vars
C37_StoreFrame ==
  /\ C37_TurnKeepsMapping
  /\ [][\A u \in DOMAIN data : u \in DOMAIN data' /\ data'[u] = data[u]]_vars
  /\ [](\A r \in Reqs :
          pc[r] = "done" /\ threadId[r] # NoThread =>
            MapGet(data, req[r].body.event.user) = threadId[r])

\* C38: when every write succeeds, after the construction and any sequence
\* of set, delete and clear, a ThreadStorage newly constructed over the
\* file comes up with exactly the instance's mapping (same users, same
\* thread ids, same size), and its construction leaves the file as it is.
C38_PersistLoadRoundTrip ==
  sState = "built" =>
    /\ file.state = "ok"
    /\ LoadFromFile(file) = data
    /\ DOMAIN LoadFromFile(file) = DOMAIN data
    /\ \A u \in DOMAIN data : StoreGet(LoadFromFile(file), u) = data[u]
    /\ StoreSize(LoadFromFile(file)) = StoreSize(data)
    /\ FileAfterLoad(file) = file

\* C38 witness: a set, a delete of another user and a set again were made
\* on a store built over a corrupt file, and a mapping remains to reload.
C38_Witness ==
  /\ sState = "built" /\ sBase = EmptyMap
  /\ Len(sHist) = 3
  /\ sHist[1].op = "set" /\ sHist[2].op = "delete" /\ sHist[3].op = "set"
  /\ StoreSize(data) = 2
  /\ LoadFromFile(file) = data

\* C39: a failure response (400, 404 or 500) of the manual-injection
\* handler means that nothing was delivered to the user's channel, and a
\* delivered message means the response is the 200 success. The message
\* is delivered when sendBlocks returned true, after which the handler
\* goes on to the thread store's get.
InjDelivered(i) == "get" \in Ops(icalls[i])
SlackJsonPost ==
  /\ hReq.path = "/slack/events"
  /\ IsJsonType(hReq.contentType)
  /\ hReq.bytes = "object"
C40_RawBytesReachParser ==
  SlackJsonPost =>
    /\ hPc = "slackBodyParser" => hBody = ReqBody("buffer", hReq.bytes)
    /\ ChainResponse(400, "Invalid body format for Slack events")
         \notin { hResp[k] : k \in 1..Len(hResp) }
    /\ hPc = "handler" =>
         /\ hRawBody = hReq.bytes
         /\ hBody = ReqBody("parsed", hReq.bytes)
    /\ hPc # "responded"

====
